---------------------------- MODULE Spec2Model ----------------------------
(***************************************************************************)
(* Model of the DeepSeek book generator (src/index.js and the two unnamed  *)
(* source parts).  The repository holds several full variants of the same  *)
(* service, one after the other in the same file.  The variants modelled   *)
(* here are                                                                *)
(*   - the layered-extraction service, src/index.js lines 1-158            *)
(*     (askDeepSeek without retries, generateBook with the corrective      *)
(*     outline request, /generate, /download);                             *)
(*   - the retrying completion client, src/index.js lines 186-225, and the *)
(*     generateBook behind it (lines 228-276);                             *)
(*   - the service of src/index.js 292-460, whose askDeepSeek always       *)
(*     throws, and the raw-text service of lines 462-558;                  *)
(*   - the blueprint variant, src/unnamed/part_001 (askDeepSeek with a     *)
(*     strict JSON.parse, generateBook with a blueprint per chapter);      *)
(*   - the structured extraction of askDeepSeek on its own;                *)
(*   - the token budget of the chapter expansion in both variants;         *)
(*   - process start of src/index.js (lines 1-19 and 155-158);             *)
(*   - the log stream of src/unnamed/part_000 (log and GET /logs).         *)
(*                                                                         *)
(* A text is a sequence of symbols.  A symbol is one structural character  *)
(* (bracket, brace, quote, comma, colon, minus, blank, line break), the    *)
(* code fence (three backticks, written "FENCE"), or one maximal run of    *)
(* letters or of digits.                                                   *)
(***************************************************************************)
EXTENDS Integers, Sequences, FiniteSets, TLC

VARIABLES
  call,      \* the one askDeepSeek call of the retrying client; in the
             \* specifications without it, the one object they are about;
             \* pc = "exited" once the process has ended
  attempts,  \* history: the outcome of every backend attempt of that call
  slept,     \* history: the delays that call has waited, in order
  runs,      \* /generate requests: run id -> the handler's position and locals
  store,     \* the value under the key 'book:markdown'
  redisQ,    \* redis replies not yet delivered, in command order
  downloads, \* /download requests: id -> the handler's position and locals
  hist       \* history: what has happened so far (never read by the program)

vars == <<call, attempts, slept, runs, store, redisQ, downloads, hist>>

(***************************************************************************)
(* JavaScript values.                                                      *)
(***************************************************************************)
Undefined == [t |-> "undefined"]
Null == [t |-> "null"]
Bool(b) == [t |-> "bool", b |-> b]
Num(n) == [t |-> "num", n |-> n]
Str(s) == [t |-> "str", s |-> s]
\* An array: its elements, and in o the named properties assigned to it.
Arr(a) == [t |-> "arr", a |-> a, o |-> <<>>]
\* An object: its own properties, in the order JavaScript enumerates them.
Obj(o) == [t |-> "obj", o |-> o]

ArrayIsArray(v) == v.t = "arr"

\* !v for the values of the model: '', 0, null, undefined and false are falsy.
Falsy(v) ==
  \/ v.t \in {"undefined", "null"}
  \/ v.t = "str" /\ v.s = <<>>
  \/ v.t = "num" /\ v.n = 0
  \/ v.t = "bool" /\ ~v.b

(***************************************************************************)
(* Texts.                                                                  *)
(***************************************************************************)
Fence == "FENCE"
Digits == {"0", "1", "2", "3"}
DigitVal(d) == CASE d = "0" -> 0 [] d = "1" -> 1 [] d = "2" -> 2 [] d = "3" -> 3

IsWs(c) == c \in {" ", "\n"}

RECURSIVE SkipWs(_, _)
\* The first index >= i of s that holds no white space (Len(s) + 1 if none).
SkipWs(s, i) ==
  IF i <= Len(s) /\ IsWs(s[i]) THEN SkipWs(s, i + 1) ELSE i

RECURSIVE SkipWsBack(_, _)
\* The last index <= i of s that holds no white space (0 if none).
SkipWsBack(s, i) ==
  IF i >= 1 /\ IsWs(s[i]) THEN SkipWsBack(s, i - 1) ELSE i

\* String.prototype.trim
Trim(s) ==
  LET a == SkipWs(s, 1)
      b == SkipWsBack(s, Len(s))
  IN IF a > b THEN <<>> ELSE SubSeq(s, a, b)

(***************************************************************************)
(* JSON.parse on texts: arrays, objects, strings, integers, true, false    *)
(* and null, with white space between the tokens.                          *)
(***************************************************************************)
ParseFail == [ok |-> FALSE, val |-> Undefined, next |-> 0]
ParseOk(v, n) == [ok |-> TRUE, val |-> v, next |-> n]

RECURSIVE StringEnd(_, _)
\* The index of the quote that closes a string whose content starts at i
\* (0 if a line break comes first or the text ends).
StringEnd(s, i) ==
  IF i > Len(s) \/ s[i] = "\n" THEN 0
  ELSE IF s[i] = "\"" THEN i
  ELSE StringEnd(s, i + 1)

ParseString(s, i) ==
  LET e == StringEnd(s, i + 1)
  IN IF e = 0 THEN ParseFail ELSE ParseOk(Str(SubSeq(s, i + 1, e - 1)), e + 1)

\* A member name that is an array index ('0', '1', ...).
IsIndexName(name) == Len(name) = 1 /\ name[1] \in Digits

\* The own properties o after the property name is set to x: a property
\* that exists keeps its place and gets the value; a new index name goes
\* among the index names in ascending order, which come first; any other
\* new name goes last.
DefineMember(o, name, x) ==
  LET m == [k |-> name, v |-> x]
      Before(e) == IsIndexName(e.k) /\ DigitVal(e.k[1]) < DigitVal(name[1])
      n == Cardinality({k \in 1..Len(o) : Before(o[k])})
  IN IF \E k \in 1..Len(o) : o[k].k = name
     THEN [k \in 1..Len(o) |-> IF o[k].k = name THEN m ELSE o[k]]
     ELSE IF IsIndexName(name)
       THEN SubSeq(o, 1, n) \o <<m>> \o SubSeq(o, n + 1, Len(o))
     ELSE Append(o, m)

RECURSIVE ParseValue(_, _)
RECURSIVE ParseElements(_, _, _)
RECURSIVE ParseMembers(_, _, _)

\* The elements of an array after "[" or ",": i is where the next value starts.
ParseElements(s, i, acc) ==
  LET r == ParseValue(s, i)
      j == SkipWs(s, r.next)
  IN IF ~r.ok \/ j > Len(s) THEN ParseFail
     ELSE IF s[j] = "," THEN ParseElements(s, j + 1, Append(acc, r.val))
     ELSE IF s[j] = "]" THEN ParseOk(Arr(Append(acc, r.val)), j + 1)
     ELSE ParseFail

\* The members of an object after "{" or ",": i is where the next key starts.
ParseMembers(s, i, acc) ==
  LET k == SkipWs(s, i)
      key == IF k <= Len(s) /\ s[k] = "\"" THEN ParseString(s, k) ELSE ParseFail
      c == SkipWs(s, key.next)
      r == IF key.ok /\ c <= Len(s) /\ s[c] = ":"
           THEN ParseValue(s, c + 1) ELSE ParseFail
      j == SkipWs(s, r.next)
      more == DefineMember(acc, key.val.s, r.val)
  IN IF ~r.ok \/ j > Len(s) THEN ParseFail
     ELSE IF s[j] = "," THEN ParseMembers(s, j + 1, more)
     ELSE IF s[j] = "}" THEN ParseOk(Obj(more), j + 1)
     ELSE ParseFail

ParseValue(s, i) ==
  LET j == SkipWs(s, i)
  IN IF j > Len(s) THEN ParseFail
     ELSE IF s[j] = "[" THEN
       (IF SkipWs(s, j + 1) <= Len(s) /\ s[SkipWs(s, j + 1)] = "]"
        THEN ParseOk(Arr(<<>>), SkipWs(s, j + 1) + 1)
        ELSE ParseElements(s, j + 1, <<>>))
     ELSE IF s[j] = "{" THEN
       (IF SkipWs(s, j + 1) <= Len(s) /\ s[SkipWs(s, j + 1)] = "}"
        THEN ParseOk(Obj(<<>>), SkipWs(s, j + 1) + 1)
        ELSE ParseMembers(s, j + 1, <<>>))
     ELSE IF s[j] = "\"" THEN ParseString(s, j)
     ELSE IF s[j] \in Digits THEN ParseOk(Num(DigitVal(s[j])), j + 1)
     ELSE IF s[j] = "-" /\ j < Len(s) /\ s[j + 1] \in Digits
       THEN ParseOk(Num(0 - DigitVal(s[j + 1])), j + 2)
     ELSE IF s[j] = "true" THEN ParseOk(Bool(TRUE), j + 1)
     ELSE IF s[j] = "false" THEN ParseOk(Bool(FALSE), j + 1)
     ELSE IF s[j] = "null" THEN ParseOk(Null, j + 1)
     ELSE ParseFail

\* JSON.parse(s): [ok |-> TRUE, val |-> the value], or ok = FALSE for the
\* SyntaxError it throws.
JSONParse(s) ==
  LET r == ParseValue(s, 1)
  IN IF r.ok /\ SkipWs(s, r.next) > Len(s)
     THEN [ok |-> TRUE, val |-> r.val]
     ELSE [ok |-> FALSE, val |-> Undefined]

(***************************************************************************)
(* The two regular expressions of askDeepSeek.                             *)
(***************************************************************************)
NoMatch == [found |-> FALSE, text |-> <<>>]

\* raw.match(/^```(?:json)?\s*\n([\s\S]*?)\n```$/i): found, and group 1.
\* The flag i lets the tag json be written in any mix of cases (JsonTags).
\* The greedy \s* gives back white space until a line break follows it, so
\* group 1 starts after the last line break of the leading white space that
\* still leaves the closing line break and fence behind it.
JsonTags ==
  {"json", "jsoN", "jsOn", "jsON", "jSon", "jSoN", "jSOn", "jSON",
   "Json", "JsoN", "JsOn", "JsON", "JSon", "JSoN", "JSOn", "JSON"}

CodeBlockMatch(raw) ==
  LET n == Len(raw)
      p == IF n >= 2 /\ raw[2] \in JsonTags THEN 3 ELSE 2
      w == SkipWs(raw, p)
      opens == {q \in p..(w - 1) : raw[q] = "\n" /\ q <= n - 2}
      q0 == CHOOSE q \in opens : \A r \in opens : r <= q
  IN IF n >= 4 /\ raw[1] = Fence /\ raw[n] = Fence /\ raw[n - 1] = "\n"
        /\ opens # {}
     THEN [found |-> TRUE, text |-> SubSeq(raw, q0 + 1, n - 2)]
     ELSE NoMatch

\* Mutant of JsonLikeMatch: the quantifiers are greedy, so the match runs to
\* the last closing character.
JsonLikeMatchGreedy(raw) ==
  LET Closer(c) == IF c = "[" THEN "]" ELSE "}"
      Closes(i) == {j \in (i + 1)..Len(raw) : raw[j] = Closer(raw[i])}
      starts == {i \in 1..Len(raw) : raw[i] \in {"[", "{"} /\ Closes(i) # {}}
      i0 == CHOOSE i \in starts : \A k \in starts : i <= k
      j0 == CHOOSE j \in Closes(i0) : \A k \in Closes(i0) : j >= k
  IN IF starts = {} THEN NoMatch
     ELSE [found |-> TRUE, text |-> SubSeq(raw, i0, j0)]

\* raw.match(/(\[.*?\]|\{.*?\})/s): the leftmost bracket or brace that has
\* its closing character somewhere after it, up to the first such closing
\* character.
JsonLikeMatch(raw) ==
  LET Closer(c) == IF c = "[" THEN "]" ELSE "}"
      Closes(i) == {j \in (i + 1)..Len(raw) : raw[j] = Closer(raw[i])}
      starts == {i \in 1..Len(raw) : raw[i] \in {"[", "{"} /\ Closes(i) # {}}
      i0 == CHOOSE i \in starts : \A k \in starts : i <= k
      j0 == CHOOSE j \in Closes(i0) : \A k \in Closes(i0) : j <= k
  IN IF starts = {} THEN NoMatch
     ELSE [found |-> TRUE, text |-> SubSeq(raw, i0, j0)]

(***************************************************************************)
(* The backend: what one axios.post of the chat-completion request gives.  *)
(* net = "error": no response (transport error).  Otherwise a response     *)
(* with a status and a body.  The body is                                  *)
(*   "nochoices"     data without a choices field,                         *)
(*   "emptychoices"  choices: [],                                          *)
(*   "nomessage"     choices: [{}],                                        *)
(*   "nocontent"     choices: [{message: {}}],                             *)
(*   "nullcontent"   choices: [{message: {content: null}}],                *)
(*   "text"          a completion, in content,                             *)
(* and "none" on a status outside 2xx.                                     *)
(***************************************************************************)
NetError == [net |-> "error", status |-> 0, body |-> "none", content |-> <<>>]
Http(status, body, content) ==
  [net |-> "ok", status |-> status, body |-> body, content |-> content]

NoError == [name |-> "none", msg |-> "none"]

Thrown(name, msg) == [ok |-> FALSE, val |-> Undefined, err |-> [name |-> name, msg |-> msg]]
Returned(v) == [ok |-> TRUE, val |-> v, err |-> NoError]

\* await axios.post(...): rejects without a response and on a status
\* outside 2xx (axios' default validateStatus).
AxiosPost(resp) ==
  IF resp.net = "error" THEN Thrown("AxiosError", "Network Error")
  ELSE IF resp.status < 200 \/ resp.status > 299
    THEN Thrown("AxiosError", "Request failed with status code")
  ELSE Returned(Undefined)

\* data.choices[0]?.message?.content?.trim() || ''
ContentOrEmpty(resp) ==
  IF resp.body = "nochoices"
  THEN Thrown("TypeError", "Cannot read properties of undefined (reading '0')")
  ELSE IF resp.body = "text" THEN Returned(Str(Trim(resp.content)))
  ELSE Returned(Str(<<>>))

(***************************************************************************)
(* Conversions and property access of JavaScript, as generateBook uses     *)
(* them on the values JSON.parse gives.                                    *)
(***************************************************************************)
DigitSym(n) == CASE n = 0 -> "0" [] n = 1 -> "1" [] n = 2 -> "2" [] n = 3 -> "3"

RECURSIVE JoinTexts(_)
\* The texts of q joined by commas.
JoinTexts(q) ==
  IF q = <<>> THEN <<>>
  ELSE IF Len(q) = 1 THEN q[1]
  ELSE q[1] \o <<",">> \o JoinTexts(Tail(q))

\* The members an object or an array has of its own under the name key.
OwnMembers(v, key) == {k \in 1..Len(v.o) : v.o[k].k = <<key>>}

RECURSIVE Converts(_)
\* ToPrimitive of v succeeds.  JSON.parse gives no functions, so an object
\* that has a member toString of its own hides Object.prototype.toString
\* behind a value that cannot be called; Object.prototype.valueOf gives the
\* object back, and the conversion throws.  Joining an array converts every
\* element but null and undefined.
Converts(v) ==
  CASE v.t = "obj" -> OwnMembers(v, "toString") = {}
    [] v.t = "arr" ->
         /\ OwnMembers(v, "toString") = {}
         /\ \A k \in 1..Len(v.a) : v.a[k].t \in {"null", "undefined"} \/ Converts(v.a[k])
    [] OTHER -> TRUE

PrimitiveError == [name |-> "TypeError", msg |-> "Cannot convert object to primitive value"]
ConversionThrown == [ok |-> FALSE, val |-> Undefined, err |-> PrimitiveError]

RECURSIVE ToTextOf(_)
\* The string of a value that converts.
ToTextOf(v) ==
  CASE v.t = "str" -> v.s
    [] v.t = "num" -> IF v.n < 0 THEN <<"-", DigitSym(0 - v.n)>> ELSE <<DigitSym(v.n)>>
    [] v.t = "bool" -> IF v.b THEN <<"true">> ELSE <<"false">>
    [] v.t = "null" -> <<"null">>
    [] v.t = "undefined" -> <<"undefined">>
    [] v.t = "obj" -> <<"[object Object]">>
    [] v.t = "arr" ->
         JoinTexts([k \in 1..Len(v.a) |->
                      IF v.a[k].t \in {"null", "undefined"} THEN <<>>
                      ELSE ToTextOf(v.a[k])])

\* `${v}`: the string a template literal makes of v, or the TypeError it
\* throws when v does not convert.
ToText(v) == IF Converts(v) THEN ToTextOf(v) ELSE ConversionThrown

NaN == [t |-> "nan"]

\* The integer with an optional sign that s holds from index i on.
SignedInt(s, i) ==
  LET neg == i <= Len(s) /\ s[i] = "-"
      j == IF i <= Len(s) /\ s[i] \in {"-", "+"} THEN i + 1 ELSE i
  IN IF j <= Len(s) /\ s[j] \in Digits
     THEN [ok |-> TRUE, n |-> IF neg THEN 0 - DigitVal(s[j]) ELSE DigitVal(s[j]),
           next |-> j + 1]
     ELSE [ok |-> FALSE, n |-> 0, next |-> i]

\* Number(s) of a string: 0 for white space only, the integer when the
\* trimmed text is one, NaN otherwise.
StringToNumber(s) ==
  LET t == Trim(s)
      r == SignedInt(t, 1)
  IN IF t = <<>> THEN Num(0)
     ELSE IF r.ok /\ r.next > Len(t) THEN Num(r.n)
     ELSE NaN

\* ToNumber: what an arithmetic operator makes of v.  An array is turned
\* into its text first, an object into '[object Object]'; a value that
\* does not convert throws.
ToNumber(v) ==
  IF ~Converts(v) THEN ConversionThrown
  ELSE CASE v.t = "num" -> v
         [] v.t = "null" -> Num(0)
         [] v.t = "bool" -> Num(IF v.b THEN 1 ELSE 0)
         [] v.t = "str" -> StringToNumber(v.s)
         [] v.t = "arr" -> StringToNumber(ToText(v))
         [] OTHER -> NaN

\* parseInt(s): leading white space is skipped, a sign is accepted, what
\* follows the digits is ignored.
ParseInt(s) ==
  LET r == SignedInt(s, SkipWs(s, 1))
  IN IF r.ok THEN Num(r.n) ELSE NaN

\* v * k for a positive integer k; throws when v does not convert.
Times(v, k) ==
  LET n == ToNumber(v)
  IN IF ~Converts(v) THEN ConversionThrown
     ELSE IF n.t = "num" THEN Num(n.n * k) ELSE NaN

\* v[key] for a value that is neither null nor undefined and a key that is
\* a name (not an index, not length): the property of that name of an
\* object or an array, undefined for anything else.  The name of a member
\* is a text: the one symbol key.
GetProp(v, key) ==
  LET hits == IF v.t \in {"obj", "arr"}
              THEN {k \in 1..Len(v.o) : v.o[k].k = <<key>>} ELSE {}
      last == CHOOSE k \in hits : \A h \in hits : h <= k
  IN IF hits = {} THEN Undefined ELSE v.o[last].v

\* v[key] = x in sloppy mode: sets the property of an object or of an
\* array, and is silently ignored on a primitive.
SetProp(v, key, x) ==
  IF v.t \notin {"obj", "arr"} THEN v
  ELSE [v EXCEPT !.o = DefineMember(v.o, <<key>>, x)]

Nullish(v) == v.t \in {"null", "undefined"}

(***************************************************************************)
(* askDeepSeek of src/index.js 27-68: one request, no retry, and the       *)
(* layered extraction of the completion text.                              *)
(***************************************************************************)
AskDeepSeek(resp) ==
  LET posted == AxiosPost(resp)
      raw0 == ContentOrEmpty(resp)
      m == CodeBlockMatch(raw0.val.s)
      raw == IF m.found THEN Trim(m.text) ELSE raw0.val.s
      direct == JSONParse(raw)
      jsonLike == JsonLikeMatch(raw)
      inner == JSONParse(jsonLike.text)
  IN IF ~posted.ok THEN posted
     ELSE IF ~raw0.ok THEN raw0
     ELSE IF direct.ok THEN Returned(direct.val)
     ELSE IF jsonLike.found /\ inner.ok THEN Returned(inner.val)
     ELSE Returned(Str(raw))

(***************************************************************************)
(* generateBook of src/index.js 71-129, cut at its awaits.  A run is the   *)
(* record of one /generate request: pc is the await it is suspended at     *)
(* ("toc", "toc2", "desc", "chapter", "set"), or "done" once the handler   *)
(* has responded.  reqs (the requests sent), planned (the outline passed   *)
(* line 91), thrown (the error thrown), lastCall (the last askDeepSeek     *)
(* call: the response, the outcome, the attempts made), callFailed (some   *)
(* call threw) and wrote (redis.set took effect) are history.              *)
(***************************************************************************)
Part(p, text) == [p |-> p, text |-> text]

\* Mutant of Skeleton: the lines of the table of contents are numbered from
\* 0 (idx instead of idx + 1).
SkeletonZeroBased(keywords, toc) ==
  <<Part("title", keywords), Part("banner", <<>>), Part("tocHeading", <<>>)>>
  \o [k \in 1..Len(toc.a) |->
        [p |-> "tocLine", n |-> k - 1, title |-> ToText(GetProp(toc.a[k], "title")),
         pages |-> ToText(GetProp(toc.a[k], "pages"))]]
  \o <<Part("rule", <<>>)>>

\* bookMarkdown after lines 96-100: the title line, the banner, the table
\* of contents heading, one line per chapter, the rule.
Skeleton(keywords, toc) ==
  <<Part("title", keywords), Part("banner", <<>>), Part("tocHeading", <<>>)>>
  \o [k \in 1..Len(toc.a) |->
        [p |-> "tocLine", n |-> k, title |-> ToText(GetProp(toc.a[k], "title")),
         pages |-> ToText(GetProp(toc.a[k], "pages"))]]
  \o <<Part("rule", <<>>)>>

\* Line 124: the chapter's heading, its description as a quote, its text
\* and the rule.
ChapterSection(ch, chapterText) ==
  <<Part("h1", ToText(GetProp(ch, "title"))),
    Part("quote", ToText(GetProp(ch, "description"))),
    Part("body", ToText(chapterText)),
    Part("rule", <<>>)>>

\* The first element of toc at which the callback of toc.forEach (line 98)
\* throws, 0 when there is none: ch.title of null, or a title or a page
\* count that does not convert.
FirstBadChapter(toc) ==
  LET bad == {k \in 1..Len(toc.a) :
                \/ Nullish(toc.a[k])
                \/ ~Converts(GetProp(toc.a[k], "title"))
                \/ ~Converts(GetProp(toc.a[k], "pages"))}
  IN IF bad = {} THEN 0 ELSE CHOOSE k \in bad : \A h \in bad : k <= h

\* What the callback of toc.forEach throws at element k.
SkeletonError(toc, k, nullRead) ==
  IF Nullish(toc.a[k]) THEN [name |-> "TypeError", msg |-> nullRead] ELSE PrimitiveError

\* One of the values a template literal embeds does not convert.
SomeThrows(values) == \E k \in 1..Len(values) : ~Converts(values[k])

TocRequest(kind, embedded) ==
  [kind |-> kind, ch |-> 0, maxTokens |-> Num(1000), embeds |-> embedded]
DescRequest(i, ch) ==
  [kind |-> "desc", ch |-> i + 1, maxTokens |-> Num(300),
   embeds |-> ToText(GetProp(ch, "title"))]
ChapterRequest(i, ch) ==
  [kind |-> "chapter", ch |-> i + 1, maxTokens |-> Times(GetProp(ch, "pages"), 80),
   embeds |-> ToText(GetProp(ch, "description"))]

\* Mutant of LoopDone: the loop condition i < toc.length - 1 leaves the last
\* chapter out.
LoopDoneEarly(i, toc) == ~(i < Len(toc.a) - 1)

\* for (let i = 0; i < toc.length; i++): the loop is over.
LoopDone(i, toc) == ~(i < Len(toc.a))

\* The run g at the top of the chapter loop (line 105) with index g.i, up to
\* its next await: the description request, the chapter request, or
\* redis.set once the loop is over.  Building a prompt (lines 110, 115-120)
\* throws when a value it embeds does not convert.
LoopTop(g) ==
  LET ch == g.toc.a[g.i + 1]
  IN IF LoopDone(g.i, g.toc) THEN [g EXCEPT !.pc = "set"]
     ELSE IF Nullish(ch)
       THEN [g EXCEPT !.pc = "throw",
                      !.thrown = [name |-> "TypeError", msg |-> "Cannot read properties of null"]]
     ELSE IF Falsy(GetProp(ch, "description"))
       THEN IF SomeThrows(<<GetProp(ch, "title")>>)
            THEN [g EXCEPT !.pc = "throw", !.thrown = PrimitiveError]
            ELSE [g EXCEPT !.pc = "desc", !.reqs = Append(@, DescRequest(g.i, ch))]
     ELSE IF SomeThrows(<<GetProp(ch, "title"), GetProp(ch, "pages"),
                          GetProp(ch, "description")>>)
       THEN [g EXCEPT !.pc = "throw", !.thrown = PrimitiveError]
     ELSE [g EXCEPT !.pc = "chapter", !.reqs = Append(@, ChapterRequest(g.i, ch))]

\* Lines 89-105: the final array check, the skeleton, and the loop entry.
AfterToc(g, toc) ==
  IF ~ArrayIsArray(toc)
    THEN [g EXCEPT !.pc = "throw",
                   !.thrown = [name |-> "Error",
                               msg |-> "Could not obtain valid TOC array from DeepSeek"]]
  ELSE IF FirstBadChapter(toc) # 0
    THEN [g EXCEPT !.pc = "throw",
                   !.thrown = SkeletonError(toc, FirstBadChapter(toc),
                                            "Cannot read properties of null")]
  ELSE LoopTop([g EXCEPT !.toc = toc, !.planned = TRUE, !.i = 0,
                         !.book = Skeleton(g.keywords, toc)])

\* Lines 80-87, resumed with the outcome of the first askDeepSeek.
OnToc(g, out) ==
  IF ~out.ok THEN [g EXCEPT !.pc = "throw", !.thrown = out.err]
  ELSE IF ~ArrayIsArray(out.val) /\ ~Converts(out.val)
    THEN [g EXCEPT !.pc = "throw", !.thrown = PrimitiveError]
  ELSE IF ~ArrayIsArray(out.val)
    THEN [g EXCEPT !.pc = "toc2", !.reqs = Append(@, TocRequest("toc2", ToText(out.val)))]
  ELSE AfterToc(g, out.val)

\* Lines 86-91, resumed with the outcome of the corrective askDeepSeek.
OnToc2(g, out) ==
  IF ~out.ok THEN [g EXCEPT !.pc = "throw", !.thrown = out.err]
  ELSE AfterToc(g, out.val)

\* Lines 111-121, resumed with the outcome of the description request.
OnDesc(g, out) ==
  LET ch == SetProp(g.toc.a[g.i + 1], "description", out.val)
  IN IF ~out.ok THEN [g EXCEPT !.pc = "throw", !.thrown = out.err]
     ELSE IF SomeThrows(<<GetProp(ch, "title"), GetProp(ch, "pages"),
                          GetProp(ch, "description")>>)
       THEN [g EXCEPT !.pc = "throw", !.thrown = PrimitiveError]
     ELSE [g EXCEPT !.toc = Arr([g.toc.a EXCEPT ![g.i + 1] = ch]),
                    !.pc = "chapter", !.reqs = Append(@, ChapterRequest(g.i, ch))]

\* Mutant of OnChapter: the failure of the chapter request is swallowed and
\* the loop goes on.
OnChapterSwallow(g, out) ==
  LoopTop([g EXCEPT !.book = @ \o ChapterSection(g.toc.a[g.i + 1], out.val),
                    !.i = g.i + 1])

\* Lines 121-125, resumed with the outcome of the chapter request: the
\* section is attached, i++, and the loop goes on.  Line 124 throws when
\* the chapter text (or the title, or the description) does not convert.
OnChapter(g, out) ==
  IF ~out.ok THEN [g EXCEPT !.pc = "throw", !.thrown = out.err]
  ELSE IF SomeThrows(<<GetProp(g.toc.a[g.i + 1], "title"),
                       GetProp(g.toc.a[g.i + 1], "description"), out.val>>)
    THEN [g EXCEPT !.pc = "throw", !.thrown = PrimitiveError]
  ELSE LoopTop([g EXCEPT !.book = @ \o ChapterSection(g.toc.a[g.i + 1], out.val),
                         !.i = g.i + 1])

(***************************************************************************)
(* The routes of src/index.js 133-152 and the shared redis client of line  *)
(* 10.  The client has one connection: commands reach the server in the    *)
(* order they were issued and their replies come back in that order, so a  *)
(* command takes effect on the store when it is issued here and its reply  *)
(* waits in redisQ.                                                        *)
(***************************************************************************)
Md(parts) == [t |-> "md", parts |-> parts]

NoResponse == [status |-> 0, ok |-> FALSE, body |-> Undefined]

\* res.json({ ok: true }) and res.status(500).json({ ok: false, error: err.message })
GenerateResponse(ok, err) ==
  IF ok THEN [status |-> 200, ok |-> TRUE, body |-> Undefined]
  ELSE [status |-> 500, ok |-> FALSE, body |-> Str(<<err.msg>>)]

\* Mutant of BookMissing: markdown === undefined, which the null of a
\* missing key is not.
BookMissingUndefinedOnly(markdown) == markdown.t = "undefined"

\* if (!markdown) on the value redis.get gave: null when the key is not set.
BookMissing(markdown) ==
  \/ Nullish(markdown)
  \/ markdown.t = "md" /\ markdown.parts = <<>>

\* Lines 148-151 of /download.
DownloadResponse(markdown) ==
  IF BookMissing(markdown)
  THEN [status |-> 404, ok |-> FALSE, body |-> Str(<<"Book not found. Generate it first.">>)]
  ELSE [status |-> 200, ok |-> TRUE, body |-> markdown]

\* req.query.keywords || 'Artificial Intelligence'
QueryKeywords(q) == IF Falsy(q.keywords) THEN <<"Artificial Intelligence">> ELSE q.keywords.s

\* parseInt(req.query.pages) || 120
QueryPages(q) ==
  LET n == ParseInt(ToText(q.pages))
  IN IF n.t = "num" /\ n.n # 0 THEN n.n ELSE 120

NoCall == [resp |-> NetError, out |-> Returned(Undefined), n |-> 0]

\* The run a /generate request starts: the handler reads the query and
\* generateBook suspends at its first askDeepSeek (line 80).
NewRun(q) ==
  [pc |-> "toc", keywords |-> QueryKeywords(q), totalPages |-> QueryPages(q),
   toc |-> Undefined, i |-> 0, book |-> <<>>, res |-> NoResponse,
   reqs |-> <<TocRequest("toc", <<>>)>>, planned |-> FALSE, thrown |-> NoError,
   lastCall |-> NoCall, callFailed |-> FALSE, wrote |-> FALSE]

\* The handler has responded: generateBook's locals are gone.
Ended(g, res) ==
  [g EXCEPT !.pc = "done", !.res = res, !.toc = Undefined, !.i = 0, !.book = <<>>,
            !.reqs = <<>>]

\* The history of the askDeepSeek call that just ended.
Called(g, resp, out) ==
  [g EXCEPT !.lastCall = [resp |-> resp, out |-> out, n |-> 1],
            !.callFailed = @ \/ ~out.ok]

\* Run r goes on as g up to its next await.  A throw is caught by the
\* handler (lines 140-143); at redis.set (line 127) the command is issued.
Resume(r, g) ==
  IF g.pc = "throw"
    THEN /\ runs' = [runs EXCEPT ![r] = Ended(g, GenerateResponse(FALSE, g.thrown))]
         /\ UNCHANGED <<store, redisQ, hist>>
  ELSE IF g.pc = "set"
    THEN \E ok \in BOOLEAN :
           /\ runs' = [runs EXCEPT ![r] = [g EXCEPT !.wrote = ok]]
           /\ store' = IF ok THEN Md(g.book) ELSE store
           /\ redisQ' = Append(redisQ, [op |-> "set", who |-> r, ok |-> ok, val |-> Null])
           /\ hist' = IF ok
                      THEN [hist EXCEPT !.lastWrite =
                              [run |-> r, keywords |-> g.keywords, toc |-> g.toc]]
                      ELSE hist
  ELSE /\ runs' = [runs EXCEPT ![r] = g]
       /\ UNCHANGED <<store, redisQ, hist>>

(***************************************************************************)
(* The service: /generate and /download requests arrive at any time, the   *)
(* backend answers each request of a run in one of the ways below, and     *)
(* redis carries out or fails each command.                                *)
(***************************************************************************)
MaxGenerates == 2

Q == "\""
KeyValue(key, valueText) == <<Q, key, Q, ":">> \o valueText
Quoted(word) == <<Q, word, Q>>

\* {"title":"<title>","pages":<pages>} and the same with a description.
ChapterText(title, pages) ==
  <<"{">> \o KeyValue("title", Quoted(title)) \o <<",">> \o KeyValue("pages", pages) \o <<"}">>
ChapterTextDesc(title, pages, desc) ==
  <<"{">> \o KeyValue("title", Quoted(title)) \o <<",">> \o KeyValue("pages", pages)
  \o <<",">> \o KeyValue("description", Quoted(desc)) \o <<"}">>

ProseText == <<"Sure", " ", "here", " ", "it", " ", "is">>
\* Prose that holds a bracketed span.
BracketedProseText == <<"See", " ", "[", "1", "]">>
OutlineTwoText ==
  <<"[">> \o ChapterText("A", <<"1">>) \o <<",">>
  \o ChapterTextDesc("B", <<"2">>, "about B") \o <<"]">>
OutlineEmptyText == <<"[", "]">>
OutlineZeroPagesText == <<"[">> \o ChapterTextDesc("A", <<"0">>, "about A") \o <<"]">>

\* An object with a member toString of its own, and an outline whose one
\* chapter has it as its title.
ToStringObjectText == <<"{">> \o KeyValue("toString", <<"1">>) \o <<"}">>
OutlineToStringText ==
  <<"[", "{">> \o KeyValue("title", ToStringObjectText) \o <<",">>
  \o KeyValue("pages", <<"1">>) \o <<"}", "]">>

\* An outline whose one chapter is an array and not an object.
OutlineOfArrayText == <<"[", "[", "]", "]">>
FencedArrayText == <<Fence, "json", "\n", "[", "1", "]", "\n", Fence>>

\* What the backend may answer to an outline request, and to a description
\* or chapter request.
OutlineResponses ==
  {NetError, Http(200, "nocontent", <<>>), Http(200, "text", ProseText),
   Http(200, "text", OutlineTwoText), Http(200, "text", OutlineEmptyText),
   Http(200, "text", OutlineZeroPagesText), Http(200, "text", OutlineOfArrayText),
   Http(200, "text", OutlineToStringText), Http(200, "text", ToStringObjectText)}
ProseResponses ==
  {NetError, Http(500, "none", <<>>), Http(200, "text", ProseText),
   Http(200, "text", BracketedProseText), Http(200, "text", ToStringObjectText)}

\* The narrower answers of the service with overlapping requests.
ServiceOutlineResponses ==
  {NetError, Http(200, "text", ProseText), Http(200, "text", OutlineTwoText)}
ServiceProseResponses == {NetError, Http(200, "text", ProseText)}

\* What the backend may answer to one attempt of the retrying client.
RetryResponses ==
  {NetError, Http(429, "none", <<>>), Http(200, "nochoices", <<>>),
   Http(200, "nocontent", <<>>), Http(200, "text", ProseText),
   Http(200, "text", FencedArrayText)}

\* askDeepSeek on every response of the model.
AskOutcome ==
  [resp \in OutlineResponses \cup ProseResponses \cup ServiceOutlineResponses
            \cup ServiceProseResponses |-> AskDeepSeek(resp)]

GenerateQueries ==
  {[keywords |-> Undefined, pages |-> Undefined],
   [keywords |-> Str(<<"Graph Theory">>), pages |-> Str(<<"3">>)]}

\* A document of an earlier process, still under the key.
OldBook == Md(<<Part("title", <<"Old">>)>>)

\* history: no run has written the store yet.
NoWrite == [run |-> 0, keywords |-> <<>>, toc |-> Undefined]

IdleCall ==
  [maxRetries |-> 0, attempt |-> 0, pc |-> "idle", delay |-> 0,
   result |-> Undefined, error |-> NoError]

\* The k-th /generate request of the service asks for its own topic.
ServiceQuery(k) == [keywords |-> Str(<<"Topic", DigitSym(k)>>), pages |-> Str(<<"3">>)]

\* A /download request that has not arrived yet.  /download changes neither
\* the store nor a run, so one request arriving at any moment stands for
\* every request.
NoDownload == [pc |-> "idle", res |-> NoResponse, afterSuccess |-> FALSE]

Init ==
  /\ runs = <<>>
  /\ downloads = <<NoDownload>>
  /\ store \in {Null, OldBook}
  /\ redisQ = <<>>
  /\ hist = [initial |-> store, lastWrite |-> NoWrite]
  /\ call = IdleCall
  /\ attempts = <<>>
  /\ slept = <<>>

\* The process is running: nothing has ended it.
Up == call.pc # "exited"

\* GET /generate arrives (lines 133-138).
Generate ==
  /\ Up
  /\ Len(runs) < MaxGenerates
  /\ runs' = Append(runs, NewRun(ServiceQuery(Len(runs) + 1)))
  /\ UNCHANGED <<store, redisQ, downloads, hist, call, attempts, slept>>

\* The backend answers the outline request of run r, with one of responses.
TocReply(r, responses) ==
  /\ Up
  /\ runs[r].pc = "toc"
  /\ \E resp \in responses :
       Resume(r, OnToc(Called(runs[r], resp, AskOutcome[resp]), AskOutcome[resp]))
  /\ UNCHANGED <<downloads, call, attempts, slept>>

\* The backend answers the corrective outline request of run r.
Toc2Reply(r, responses) ==
  /\ Up
  /\ runs[r].pc = "toc2"
  /\ \E resp \in responses :
       Resume(r, OnToc2(Called(runs[r], resp, AskOutcome[resp]), AskOutcome[resp]))
  /\ UNCHANGED <<downloads, call, attempts, slept>>

\* The backend answers the description request of run r.
DescReply(r, responses) ==
  /\ Up
  /\ runs[r].pc = "desc"
  /\ \E resp \in responses :
       Resume(r, OnDesc(Called(runs[r], resp, AskOutcome[resp]), AskOutcome[resp]))
  /\ UNCHANGED <<downloads, call, attempts, slept>>

\* The backend answers the chapter request of run r.
ChapterReply(r, responses) ==
  /\ Up
  /\ runs[r].pc = "chapter"
  /\ \E resp \in responses :
       Resume(r, OnChapter(Called(runs[r], resp, AskOutcome[resp]), AskOutcome[resp]))
  /\ UNCHANGED <<downloads, call, attempts, slept>>

RedisSetError == [name |-> "Error", msg |-> "The client is closed"]

\* The reply to a run's redis.set arrives: generateBook returns and the
\* handler responds (lines 128, 139), or the rejection is caught (140-143).
SetReply ==
  /\ Up
  /\ redisQ # <<>>
  /\ Head(redisQ).op = "set"
  /\ LET m == Head(redisQ)
         g == runs[m.who]
     IN runs' = [runs EXCEPT ![m.who] =
                   IF m.ok THEN Ended(g, GenerateResponse(TRUE, NoError))
                   ELSE Ended([g EXCEPT !.thrown = RedisSetError],
                              GenerateResponse(FALSE, RedisSetError))]
  /\ redisQ' = Tail(redisQ)
  /\ UNCHANGED <<store, downloads, hist, call, attempts, slept>>

RunSucceeded(g) == g.pc = "done" /\ g.res.ok

\* GET /download arrives: redis.get is issued (line 147).
Download(d) ==
  /\ Up
  /\ downloads[d].pc = "idle"
  /\ \E ok \in BOOLEAN :
       /\ downloads' = [downloads EXCEPT ![d].pc = "get"]
       /\ redisQ' = Append(redisQ, [op |-> "get", who |-> d, ok |-> ok,
                                    val |-> IF ok THEN store ELSE Null])
  /\ UNCHANGED <<runs, store, hist, call, attempts, slept>>

\* What becomes of a /download request whose redis.get rejects: line 147
\* has no try/catch, so the promise of the async handler rejects.  The
\* repository pins neither the framework nor the runtime.  A framework that
\* forwards the rejection to its default error handler answers 500 and the
\* service goes on.  One that ignores the handler's promise sends nothing,
\* and the rejection is unhandled: a runtime that ends the process on an
\* unhandled rejection (Node 15 and later, exit code 1) takes every request
\* in flight with it, an earlier one prints a warning and goes on.
UncaughtInHandler ==
  {[res |-> NoResponse, exits |-> FALSE],
   [res |-> NoResponse, exits |-> TRUE],
   [res |-> [status |-> 500, ok |-> FALSE, body |-> Str(<<"Internal Server Error">>)],
    exits |-> FALSE]}

\* The reply to a download's redis.get arrives (lines 148-151).  A rejected
\* get is not caught by the handler.
GetReply ==
  /\ Up
  /\ redisQ # <<>>
  /\ Head(redisQ).op = "get"
  /\ LET m == Head(redisQ)
         succ == \E r \in 1..Len(runs) : RunSucceeded(runs[r])
     IN IF m.ok
        THEN /\ downloads' = [downloads EXCEPT ![m.who] =
                  [pc |-> "done", res |-> DownloadResponse(m.val), afterSuccess |-> succ]]
             /\ call' = call
        ELSE \E u \in UncaughtInHandler :
               /\ downloads' = [downloads EXCEPT ![m.who] =
                    [pc |-> "rejected", res |-> u.res, afterSuccess |-> succ]]
               /\ call' = IF u.exits THEN [call EXCEPT !.pc = "exited"] ELSE call
  /\ redisQ' = Tail(redisQ)
  /\ UNCHANGED <<runs, store, hist, attempts, slept>>

Next ==
  \/ Generate
  \/ \E r \in 1..Len(runs) : TocReply(r, ServiceOutlineResponses)
  \/ \E r \in 1..Len(runs) : Toc2Reply(r, ServiceOutlineResponses)
  \/ \E r \in 1..Len(runs) : DescReply(r, ServiceProseResponses)
  \/ \E r \in 1..Len(runs) : ChapterReply(r, ServiceProseResponses)
  \/ SetReply
  \/ \E d \in 1..Len(downloads) : Download(d)
  \/ GetReply

Spec == Init /\ [][Next]_vars

(***************************************************************************)
(* One /generate request on an otherwise quiet service, with every answer  *)
(* of the backend: the state after the handler has started the run.        *)
(***************************************************************************)
InitRun ==
  /\ runs \in {<<NewRun(q)>> : q \in GenerateQueries}
  /\ downloads = <<>>
  /\ store \in {Null, OldBook}
  /\ redisQ = <<>>
  /\ hist = [initial |-> store, lastWrite |-> NoWrite]
  /\ call = IdleCall
  /\ attempts = <<>>
  /\ slept = <<>>

NextRun ==
  \/ TocReply(1, OutlineResponses)
  \/ Toc2Reply(1, OutlineResponses)
  \/ DescReply(1, ProseResponses)
  \/ ChapterReply(1, ProseResponses)
  \/ SetReply

SpecRun == InitRun /\ [][NextRun]_vars

\* One run under the scheduling the code gives it.  The run moves only when
\* a reply arrives: askDeepSeek (lines 31-45) passes no timeout to
\* axios.post, whose default is to wait without limit, and sets no timer of
\* its own, so there is no step that ends a wait on the backend.  The store
\* is taken to answer every command (weak fairness of SetReply); the backend
\* is under no obligation to answer.
SpecRunLive == InitRun /\ [][NextRun]_vars /\ WF_vars(SetReply)

(***************************************************************************)
(* The blueprint variant of src/unnamed/part_001: askDeepSeek parses the   *)
(* completion with JSON.parse and nothing else, and generateBook asks for  *)
(* a description, a blueprint and the chapter text of every chapter.       *)
(***************************************************************************)
\* Math.max(1, Math.min(maxTokens, 8000)) of line 24; NaN stays NaN.
ClampTokens(v) ==
  IF v.t # "num" THEN v
  ELSE IF v.n > 8000 THEN Num(8000)
  ELSE IF v.n < 1 THEN Num(1)
  ELSE v

\* askDeepSeek of part_001 23-47: data.choices[0].message.content without
\* optional chaining, and JSON.parse of it.  Reading through a missing
\* choices, element or message throws; JSON.parse(null) is null;
\* JSON.parse(undefined) and JSON.parse of other text throw.
AskDeepSeekStrict(resp) ==
  LET posted == AxiosPost(resp)
      parsed == JSONParse(resp.content)
  IN IF ~posted.ok THEN posted
     ELSE IF resp.body = "nochoices"
       THEN Thrown("TypeError", "Cannot read properties of undefined (reading '0')")
     ELSE IF resp.body = "emptychoices"
       THEN Thrown("TypeError", "Cannot read properties of undefined (reading 'message')")
     ELSE IF resp.body = "nomessage"
       THEN Thrown("TypeError", "Cannot read properties of undefined (reading 'content')")
     ELSE IF resp.body = "nullcontent" THEN Returned(Null)
     ELSE IF resp.body = "text" /\ parsed.ok THEN Returned(parsed.val)
     ELSE Thrown("SyntaxError", "Unexpected token in JSON")

\* Two blanks for every level of indentation.
Indent(lvl) == [k \in 1..(2 * lvl) |-> " "]

RECURSIVE JoinLines(_)
\* The texts of q joined by a comma and a line break.
JoinLines(q) ==
  IF q = <<>> THEN <<>>
  ELSE IF Len(q) = 1 THEN q[1]
  ELSE q[1] \o <<",", "\n">> \o JoinLines(Tail(q))

RECURSIVE JSONStringify(_, _)
\* JSON.stringify(v, null, 2) of a value JSON.parse gave, at nesting lvl.
JSONStringify(v, lvl) ==
  CASE v.t = "str" -> <<Q>> \o v.s \o <<Q>>
    [] v.t = "arr" ->
         IF v.a = <<>> THEN <<"[", "]">>
         ELSE <<"[", "\n">>
              \o JoinLines([k \in 1..Len(v.a) |->
                              Indent(lvl + 1) \o JSONStringify(v.a[k], lvl + 1)])
              \o <<"\n">> \o Indent(lvl) \o <<"]">>
    [] v.t = "obj" ->
         IF v.o = <<>> THEN <<"{", "}">>
         ELSE <<"{", "\n">>
              \o JoinLines([k \in 1..Len(v.o) |->
                              Indent(lvl + 1) \o <<Q>> \o v.o[k].k \o <<Q, ":", " ">>
                              \o JSONStringify(v.o[k].v, lvl + 1)])
              \o <<"\n">> \o Indent(lvl) \o <<"}">>
    [] OTHER -> ToText(v)

\* The requests of lines 100-111.
BpDescRequest(i, ch) ==
  [kind |-> "desc", ch |-> i + 1, maxTokens |-> ClampTokens(Num(200)),
   embeds |-> ToText(GetProp(ch, "title"))]
\* buildChapterBlueprint (lines 49-69) puts the title and the pages in its
\* prompt and leaves the description out.
BlueprintRequest(i, ch, description) ==
  [kind |-> "blueprint", ch |-> i + 1, maxTokens |-> ClampTokens(Num(800)),
   embeds |-> ToText(GetProp(ch, "title"))]
FullRequest(i, ch, blueprint) ==
  [kind |-> "chapter", ch |-> i + 1,
   maxTokens |-> ClampTokens(Times(GetProp(ch, "pages"), 90)),
   embeds |-> JSONStringify(blueprint, 0)]

\* Line 113: the chapter's heading, its text and the rule.
BpChapterSection(ch, chapterText) ==
  <<Part("h1", ToText(GetProp(ch, "title"))),
    Part("body", ToText(chapterText)),
    Part("rule", <<>>)>>

\* Mutant of BpLoopTop: the description requests of all remaining chapters
\* are sent at once.
BpLoopTopAll(g) ==
  IF LoopDone(g.i, g.toc) THEN [g EXCEPT !.pc = "set"]
  ELSE [g EXCEPT !.pc = "desc",
                 !.reqs = @ \o [k \in 1..(Len(g.toc.a) - g.i) |->
                                  BpDescRequest(g.i + k - 1, g.toc.a[g.i + k])]]

\* The top of the chapter loop (line 96) up to the description request.
BpLoopTop(g) ==
  LET ch == g.toc.a[g.i + 1]
  IN IF LoopDone(g.i, g.toc) THEN [g EXCEPT !.pc = "set"]
     ELSE IF Nullish(ch)
       THEN [g EXCEPT !.pc = "throw",
                      !.thrown = [name |-> "TypeError", msg |-> "Cannot read properties of null"]]
     ELSE IF SomeThrows(<<GetProp(ch, "title")>>)
       THEN [g EXCEPT !.pc = "throw", !.thrown = PrimitiveError]
     ELSE [g EXCEPT !.pc = "desc", !.reqs = Append(@, BpDescRequest(g.i, ch))]

\* Lines 88-96: the final array check, the skeleton, and the loop entry.
BpAfterToc(g, toc) ==
  IF ~ArrayIsArray(toc)
    THEN [g EXCEPT !.pc = "throw",
                   !.thrown = [name |-> "Error",
                               msg |-> "Could not obtain valid TOC array from DeepSeek"]]
  ELSE IF FirstBadChapter(toc) # 0
    THEN [g EXCEPT !.pc = "throw",
                   !.thrown = SkeletonError(toc, FirstBadChapter(toc),
                                            "Cannot read properties of null")]
  ELSE BpLoopTop([g EXCEPT !.toc = toc, !.planned = TRUE, !.i = 0,
                           !.book = Skeleton(g.keywords, toc)])

\* Lines 79-85, resumed with the outcome of the first askDeepSeek.
BpOnToc(g, out) ==
  IF ~out.ok THEN [g EXCEPT !.pc = "throw", !.thrown = out.err]
  ELSE IF ~ArrayIsArray(out.val) /\ ~Converts(out.val)
    THEN [g EXCEPT !.pc = "throw", !.thrown = PrimitiveError]
  ELSE IF ~ArrayIsArray(out.val)
    THEN [g EXCEPT !.pc = "toc2", !.reqs = Append(@, TocRequest("toc2", ToText(out.val)))]
  ELSE BpAfterToc(g, out.val)

\* Lines 84-90, resumed with the outcome of the corrective askDeepSeek.
BpOnToc2(g, out) ==
  IF ~out.ok THEN [g EXCEPT !.pc = "throw", !.thrown = out.err]
  ELSE BpAfterToc(g, out.val)

\* Lines 101-103, resumed with the description: the blueprint is asked for.
BpOnDesc(g, out) ==
  IF ~out.ok THEN [g EXCEPT !.pc = "throw", !.thrown = out.err]
  ELSE IF SomeThrows(<<GetProp(g.toc.a[g.i + 1], "title"),
                       GetProp(g.toc.a[g.i + 1], "pages")>>)
    THEN [g EXCEPT !.pc = "throw", !.thrown = PrimitiveError]
  ELSE [g EXCEPT !.pc = "blueprint",
                 !.reqs = Append(@, BlueprintRequest(g.i, g.toc.a[g.i + 1], out.val))]

\* Lines 103-111, resumed with the blueprint: the chapter text is asked for.
BpOnBlueprint(g, out) ==
  IF ~out.ok THEN [g EXCEPT !.pc = "throw", !.thrown = out.err]
  ELSE IF SomeThrows(<<GetProp(g.toc.a[g.i + 1], "title"),
                       GetProp(g.toc.a[g.i + 1], "pages")>>)
    THEN [g EXCEPT !.pc = "throw", !.thrown = PrimitiveError]
  ELSE [g EXCEPT !.pc = "chapter",
                 !.reqs = Append(@, FullRequest(g.i, g.toc.a[g.i + 1], out.val))]

\* Lines 111-114, resumed with the chapter text: the section is attached,
\* i++, and the loop goes on.  Line 113 throws when the chapter text does
\* not convert.
BpOnChapter(g, out) ==
  IF ~out.ok THEN [g EXCEPT !.pc = "throw", !.thrown = out.err]
  ELSE IF SomeThrows(<<GetProp(g.toc.a[g.i + 1], "title"), out.val>>)
    THEN [g EXCEPT !.pc = "throw", !.thrown = PrimitiveError]
  ELSE BpLoopTop([g EXCEPT !.book = @ \o BpChapterSection(g.toc.a[g.i + 1], out.val),
                           !.i = g.i + 1])

\* An outline whose closing bracket is missing, a JSON object, a JSON
\* string and a blueprint.
MalformedOutlineText == SubSeq(OutlineTwoText, 1, Len(OutlineTwoText) - 1)
ObjectText == <<"{">> \o KeyValue("a", <<"1">>) \o <<"}">>
JsonStringText == Quoted("Some text")
BlueprintText == <<"{">> \o KeyValue("sections", <<"[", "]">>) \o <<"}">>

\* What the backend may answer to an outline request of the blueprint
\* variant, and to its description, blueprint and chapter requests.
BpOutlineResponses ==
  {NetError, Http(200, "nullcontent", <<>>), Http(200, "text", ProseText),
   Http(200, "text", MalformedOutlineText),
   Http(200, "text", ObjectText), Http(200, "text", OutlineTwoText),
   Http(200, "text", OutlineToStringText), Http(200, "text", ToStringObjectText)}
BpValueResponses ==
  {NetError, Http(200, "nocontent", <<>>), Http(200, "emptychoices", <<>>),
   Http(200, "nullcontent", <<>>), Http(200, "text", ProseText),
   Http(200, "text", JsonStringText), Http(200, "text", BlueprintText),
   Http(200, "text", ToStringObjectText)}

\* The backend answers the outline request of run r (line 79).
BpTocReply(r) ==
  /\ runs[r].pc = "toc"
  /\ \E resp \in BpOutlineResponses :
       LET out == AskDeepSeekStrict(resp)
       IN Resume(r, BpOnToc(Called(runs[r], resp, out), out))
  /\ UNCHANGED <<downloads, call, attempts, slept>>

\* The backend answers the corrective outline request of run r (line 84).
BpToc2Reply(r) ==
  /\ runs[r].pc = "toc2"
  /\ \E resp \in BpOutlineResponses :
       LET out == AskDeepSeekStrict(resp)
       IN Resume(r, BpOnToc2(Called(runs[r], resp, out), out))
  /\ UNCHANGED <<downloads, call, attempts, slept>>

\* The backend answers the description request of run r (line 101).
BpDescReply(r) ==
  /\ runs[r].pc = "desc"
  /\ \E resp \in BpValueResponses :
       LET out == AskDeepSeekStrict(resp)
       IN Resume(r, BpOnDesc(Called(runs[r], resp, out), out))
  /\ UNCHANGED <<downloads, call, attempts, slept>>

\* The backend answers the blueprint request of run r (line 103).
BpBlueprintReply(r) ==
  /\ runs[r].pc = "blueprint"
  /\ \E resp \in BpValueResponses :
       LET out == AskDeepSeekStrict(resp)
       IN Resume(r, BpOnBlueprint(Called(runs[r], resp, out), out))
  /\ UNCHANGED <<downloads, call, attempts, slept>>

\* The backend answers the chapter request of run r (line 111).
BpChapterReply(r) ==
  /\ runs[r].pc = "chapter"
  /\ \E resp \in BpValueResponses :
       LET out == AskDeepSeekStrict(resp)
       IN Resume(r, BpOnChapter(Called(runs[r], resp, out), out))
  /\ UNCHANGED <<downloads, call, attempts, slept>>

\* One /generate request of the blueprint variant (part_001 123-134 are the
\* lines 133-144 of src/index.js).
NextBlueprint ==
  \/ BpTocReply(1)
  \/ BpToc2Reply(1)
  \/ BpDescReply(1)
  \/ BpBlueprintReply(1)
  \/ BpChapterReply(1)
  \/ SetReply

SpecBlueprint == InitRun /\ [][NextBlueprint]_vars

(***************************************************************************)
(* The structured extraction of askDeepSeek (src/index.js 47-67, the same  *)
(* code as src/unnamed/part_000 78-89) on its own: the completion text of  *)
(* a successful response goes in, the value askDeepSeek returns comes out. *)
(* The extraction is applied to a text and to the same text wrapped in a   *)
(* fenced code block.                                                      *)
(***************************************************************************)
MaxPieces == 2

ObjectTextB == <<"{">> \o KeyValue("b", <<"2">>) \o <<"}">>
ArrayText == <<"[", "1", "]">>
NestedArrayText == <<"[", "[", "1", "]", "]">>

\* The pieces completion texts are made of.
ExtractPieces ==
  {ObjectText, ObjectTextB, ArrayText, NestedArrayText, <<"Sure">>, <<" ">>, <<"\n">>,
   <<"true">>}

RECURSIVE TextsOf(_)
\* The texts made of at most k pieces.
TextsOf(k) ==
  IF k = 0 THEN {<<>>}
  ELSE TextsOf(k - 1) \cup {t \o piece : t \in TextsOf(k - 1), piece \in ExtractPieces}

\* What follows the opening fence: nothing, the tag json, or the tag in
\* another mix of cases.
FenceTags == {<<>>, <<"json">>, <<"jSON">>}

\* The text t in a fenced code block that opens with tag.
Wrap(t, tag) == <<Fence>> \o tag \o <<"\n">> \o t \o <<"\n", Fence>>

\* The completion texts of the model: the texts of at most MaxPieces pieces,
\* and the texts of at most one piece in a fenced code block.
ExtractInputs ==
  TextsOf(MaxPieces) \cup {Wrap(t, tag) : t \in TextsOf(1), tag \in FenceTags}

InitExtract ==
  /\ call \in {[pc |-> "extract", text |-> t, plainDone |-> FALSE, plain |-> Returned(Undefined),
                fencedDone |-> FALSE, fenced |-> Returned(Undefined), tag |-> <<>>] :
                 t \in ExtractInputs}
  /\ attempts = <<>>
  /\ slept = <<>>
  /\ runs = <<>>
  /\ store = Null
  /\ redisQ = <<>>
  /\ downloads = <<>>
  /\ hist = [initial |-> Null, lastWrite |-> NoWrite]

\* askDeepSeek receives the text as the completion of a 200 response.
ExtractPlain ==
  /\ call.pc = "extract"
  /\ ~call.plainDone
  /\ call' = [call EXCEPT !.plainDone = TRUE,
                          !.plain = AskDeepSeek(Http(200, "text", call.text))]
  /\ UNCHANGED <<attempts, slept, runs, store, redisQ, downloads, hist>>

\* askDeepSeek receives the text in a fenced code block.
ExtractFenced ==
  /\ call.pc = "extract"
  /\ ~call.fencedDone
  /\ \E tag \in FenceTags :
       call' = [call EXCEPT !.fencedDone = TRUE, !.tag = tag,
                            !.fenced = AskDeepSeek(Http(200, "text", Wrap(call.text, tag)))]
  /\ UNCHANGED <<attempts, slept, runs, store, redisQ, downloads, hist>>

NextExtract == ExtractPlain \/ ExtractFenced

SpecExtract == InitExtract /\ [][NextExtract]_vars

(***************************************************************************)
(* The token budget of a chapter's expansion request, on its own: the      *)
(* max_tokens that generateBook of src/index.js (line 121) and of          *)
(* src/unnamed/part_001 (line 111, through the clamp of line 24) send for  *)
(* two chapters of p and q pages, p <= q.                                  *)
(***************************************************************************)
MaxPages == 102

\* A chapter descriptor as JSON.parse gives it.
Descriptor(title, pages) ==
  Obj(<<[k |-> <<"title">>, v |-> Str(<<title>>)], [k |-> <<"pages">>, v |-> Num(pages)]>>)

InitBudget ==
  /\ call \in {[pc |-> "budget", pages |-> <<lo, hi>>, by |-> "none", sent |-> <<>>] :
                 lo \in 1..MaxPages, hi \in 1..MaxPages}
  /\ call.pages[1] <= call.pages[2]
  /\ attempts = <<>>
  /\ slept = <<>>
  /\ runs = <<>>
  /\ store = Null
  /\ redisQ = <<>>
  /\ downloads = <<>>
  /\ hist = [initial |-> Null, lastWrite |-> NoWrite]

\* askDeepSeek(chapterPrompt, null, ch.pages * 80) of src/index.js 121 for
\* the next chapter; the value goes into the request as max_tokens (line
\* 36).  The request of the second chapter is sent in a later turn, after
\* the answers to the first.
SendChapterBudget ==
  /\ call.pc = "budget"
  /\ call.by \in {"none", "index.js"}
  /\ LET k == Len(call.sent) + 1
     IN call' = [call EXCEPT
                   !.pc = IF k = 2 THEN "sent" ELSE "budget", !.by = "index.js",
                   !.sent = Append(@, ChapterRequest(k - 1,
                                        Descriptor("A", call.pages[k])).maxTokens)]
  /\ UNCHANGED <<attempts, slept, runs, store, redisQ, downloads, hist>>

\* askDeepSeek(fullPrompt, null, ch.pages * 90) of part_001 111 for the next
\* chapter, clamped by line 24.
SendFullBudget ==
  /\ call.pc = "budget"
  /\ call.by \in {"none", "part_001"}
  /\ LET k == Len(call.sent) + 1
     IN call' = [call EXCEPT
                   !.pc = IF k = 2 THEN "sent" ELSE "budget", !.by = "part_001",
                   !.sent = Append(@, FullRequest(k - 1, Descriptor("A", call.pages[k]),
                                                  Obj(<<>>)).maxTokens)]
  /\ UNCHANGED <<attempts, slept, runs, store, redisQ, downloads, hist>>

NextBudget == SendChapterBudget \/ SendFullBudget

SpecBudget == InitBudget /\ [][NextBudget]_vars

(***************************************************************************)
(* Process start of src/index.js: the top-level code of lines 1-19, the    *)
(* startup function of lines 155-158, and then one /generate request on    *)
(* the listening server.  call holds the process: its environment, whether *)
(* a store answers at the address the client was given, and where the      *)
(* startup stands.                                                         *)
(***************************************************************************)
\* The address of line 10 when REDIS_URL is not set.
DefaultRedisUrl == <<"redis://localhost:6379">>

\* What process.env holds for a variable: not set, set to '', or set.
EnvValues(word) == {Undefined, Str(<<>>), Str(<<word>>)}

InitStartup ==
  /\ call \in {[pc |-> "load",
                env |-> [DEEPSEEK_API_KEY |-> key, REDIS_URL |-> url],
                storeUp |-> up, url |-> <<>>, exitCode |-> 0, unhandled |-> <<>>] :
                 key \in EnvValues("sk-1"), url \in EnvValues("redis://db:6379"),
                 up \in BOOLEAN}
  /\ runs = <<>>
  /\ downloads = <<>>
  /\ store \in {Null, OldBook}
  /\ redisQ = <<>>
  /\ hist = [initial |-> store, lastWrite |-> NoWrite]
  /\ attempts = <<>>
  /\ slept = <<>>

\* The module's top-level code up to the await of line 156: the client gets
\* process.env.REDIS_URL || 'redis://localhost:6379' (line 10), a missing
\* DEEPSEEK_API_KEY ends the process with code 1 (lines 16-19), otherwise
\* redis.connect() is issued.
Boot ==
  /\ call.pc = "load"
  /\ LET url == IF Falsy(call.env.REDIS_URL) THEN DefaultRedisUrl
                ELSE call.env.REDIS_URL.s
     IN call' = IF Falsy(call.env.DEEPSEEK_API_KEY)
                THEN [call EXCEPT !.pc = "exited", !.url = url, !.exitCode = 1]
                ELSE [call EXCEPT !.pc = "connecting", !.url = url]
  /\ UNCHANGED <<attempts, slept, runs, store, redisQ, downloads, hist>>

\* redis.connect() resolves and app.listen is called (lines 156-157).
ConnectReply ==
  /\ call.pc = "connecting"
  /\ call.storeUp
  /\ call' = [call EXCEPT !.pc = "listening"]
  /\ UNCHANGED <<attempts, slept, runs, store, redisQ, downloads, hist>>

\* No store answers at the address: connect() rejects and nothing catches
\* the rejection of the startup function, so line 157 is never reached.
\* The repository pins no runtime: one that ends the process on an
\* unhandled rejection (the default of Node 15 and later) exits with code
\* 1; one that only warns (earlier versions, or --unhandled-rejections=warn)
\* prints the warning and leaves the process without a listening server,
\* its exit code 0.
ConnectFails ==
  /\ call.pc = "connecting"
  /\ ~call.storeUp
  /\ \E exits \in BOOLEAN :
       call' = [call EXCEPT !.pc = IF exits THEN "exited" ELSE "warned",
                            !.exitCode = IF exits THEN 1 ELSE 0,
                            !.unhandled = <<"connect ECONNREFUSED">>]
  /\ UNCHANGED <<attempts, slept, runs, store, redisQ, downloads, hist>>

\* GET /generate arrives at the listening server (lines 133-138).
StartupGenerate ==
  /\ call.pc = "listening"
  /\ runs = <<>>
  /\ \E q \in GenerateQueries : runs' = <<NewRun(q)>>
  /\ UNCHANGED <<call, attempts, slept, store, redisQ, downloads, hist>>

NextStartup ==
  \/ Boot
  \/ ConnectReply
  \/ ConnectFails
  \/ StartupGenerate
  \/ \E r \in 1..Len(runs) : TocReply(r, OutlineResponses)
  \/ \E r \in 1..Len(runs) : Toc2Reply(r, OutlineResponses)
  \/ \E r \in 1..Len(runs) : DescReply(r, ProseResponses)
  \/ \E r \in 1..Len(runs) : ChapterReply(r, ProseResponses)
  \/ SetReply

SpecStartup == InitStartup /\ [][NextStartup]_vars

(***************************************************************************)
(* The log stream of src/unnamed/part_000: log (lines 13-20) and GET /logs *)
(* (lines 39-51).  call holds the arrays the program has created (arrays), *)
(* which of them the module variable clients and global.sseClients refer   *)
(* to (by position in arrays), the clients whose connection is open, and   *)
(* for the last log line the clients it was written to and the clients     *)
(* that were connected then.  Clients are numbered as they connect.        *)
(***************************************************************************)
MaxClients == 3

\* q.filter(c => c !== res)
Without(q, res) == SelectSeq(q, LAMBDA c : c # res)

\* let clients = []; global.sseClients = clients;  (lines 39-40): one array,
\* two references to it.
InitLogs ==
  /\ call = [pc |-> "logs", arrays |-> <<<<>>>>, clients |-> 1, sseClients |-> 1,
             open |-> {}, arrived |-> 0,
             last |-> [logged |-> FALSE, to |-> <<>>, open |-> {}]]
  /\ attempts = <<>>
  /\ slept = <<>>
  /\ runs = <<>>
  /\ store = Null
  /\ redisQ = <<>>
  /\ downloads = <<>>
  /\ hist = [initial |-> Null, lastWrite |-> NoWrite]

\* GET /logs arrives: clients.push(res) on the array clients refers to
\* (lines 41-47).
LogsConnect ==
  /\ call.pc = "logs"
  /\ call.arrived < MaxClients
  /\ LET res == call.arrived + 1
     IN call' = [call EXCEPT !.arrived = res,
                             !.open = @ \cup {res},
                             !.arrays[call.clients] = Append(@, res)]
  /\ UNCHANGED <<attempts, slept, runs, store, redisQ, downloads, hist>>

\* The connection of client res closes: clients = clients.filter(...)
\* (lines 48-50) makes a new array and points clients at it.
LogsClose(res) ==
  /\ call.pc = "logs"
  /\ res \in call.open
  /\ call' = [call EXCEPT !.open = @ \ {res},
                          !.arrays = Append(@, Without(call.arrays[call.clients], res)),
                          !.clients = Len(call.arrays) + 1]
  /\ UNCHANGED <<attempts, slept, runs, store, redisQ, downloads, hist>>

\* log(level, msg): the line is written to every element of the array
\* global.sseClients refers to (lines 17-19).
Log ==
  /\ call.pc = "logs"
  /\ call' = [call EXCEPT !.last = [logged |-> TRUE,
                                    to |-> call.arrays[call.sseClients],
                                    open |-> call.open]]
  /\ UNCHANGED <<attempts, slept, runs, store, redisQ, downloads, hist>>

NextLogs ==
  \/ LogsConnect
  \/ \E res \in 1..MaxClients : LogsClose(res)
  \/ Log

SpecLogs == InitLogs /\ [][NextLogs]_vars

(***************************************************************************)
(* Claims about one generation run (SpecRun).                              *)
(***************************************************************************)
\* C1: if a backend call of the run fails, the run has failed (the handler
\* answered 500), the run performed no set on the store, and the value
\* under the key is what it was before the run started.
C1_FailedRunLeavesStore ==
  \A r \in 1..Len(runs) :
    runs[r].callFailed =>
      /\ runs[r].pc = "done"
      /\ runs[r].res.status = 500
      /\ ~runs[r].wrote
      /\ store = hist.initial
      /\ \A k \in 1..Len(redisQ) : ~(redisQ[k].op = "set" /\ redisQ[k].who = r)

\* A description or chapter request failed after the outline was obtained,
\* the run has ended, and the earlier document is still under the key.
C1_Witness ==
  /\ runs[1].callFailed
  /\ runs[1].planned
  /\ runs[1].lastCall.resp = NetError
  /\ runs[1].pc = "done"
  /\ store = OldBook

\* What the handler of lines 133-144 keeps to: a /generate request has a
\* response exactly when its run has ended; the response is {ok: true} only
\* if the run's document was written to the store, and a run that threw at
\* any stage is answered with status 500 and the message of the error it
\* threw.
ResponseFollowsRun ==
  \A r \in 1..Len(runs) :
    LET g == runs[r]
    IN /\ g.pc = "done" <=> g.res # NoResponse
       /\ g.res.ok => g.wrote /\ g.thrown = NoError /\ g.res.status = 200
       /\ g.thrown # NoError =>
            /\ g.pc = "done"
            /\ g.res = [status |-> 500, ok |-> FALSE, body |-> Str(<<g.thrown.msg>>)]
       /\ g.pc = "done" => g.res.ok \/ g.thrown # NoError

\* C4: every /generate request that has arrived is eventually answered, and
\* at every moment a request has a response only once its run has ended:
\* {ok: true} only after the run's document was written to the store, status
\* 500 with the error's message for a run that failed at any stage.
C4_EveryRequestAnswered ==
  /\ []ResponseFollowsRun
  /\ \A r \in 1..MaxGenerates :
       (r <= Len(runs)) ~> (r <= Len(runs) /\ runs[r].res # NoResponse)

\* C8: a 2xx response that carries no completion text never makes
\* askDeepSeek return a value: the call throws.
C8_NoSilentEmptyReturn ==
  \A r \in 1..Len(runs) :
    LET c == runs[r].lastCall
    IN (c.n > 0 /\ c.resp.net = "ok" /\ c.resp.status = 200 /\ c.resp.body # "text")
         => ~c.out.ok

\* C9: a run fails with a backend error only after the failing call made
\* more than one attempt.
C9_RunFailsOnlyAfterRetries ==
  \A r \in 1..Len(runs) :
    (runs[r].pc = "done" /\ runs[r].callFailed) => runs[r].lastCall.n > 1

\* C10: the outline that passes the outline step is a non-empty sequence of
\* descriptors with pages >= 1.
C10_OutlineNonEmptyPositive ==
  \A r \in 1..Len(runs) :
    (runs[r].planned /\ runs[r].pc # "done") =>
      /\ Len(runs[r].toc.a) >= 1
      /\ \A k \in 1..Len(runs[r].toc.a) :
           LET pages == GetProp(runs[r].toc.a[k], "pages")
           IN pages.t = "num" /\ pages.n >= 1

\* The number of requests of the given kinds run g has sent.
CountRequests(g, kinds) == Cardinality({k \in 1..Len(g.reqs) : g.reqs[k].kind \in kinds})

\* The value is a non-empty array.
NonEmptyArray(v) == v.t = "arr" /\ Len(v.a) >= 1

\* C11: when the first outline response has been received, the corrective
\* request has been sent (once) exactly if that response did not yield a
\* non-empty sequence, and it embeds the first response's text; a run never
\* sends more than two outline requests.
C11_CorrectiveExactlyWhenNeeded ==
  /\ [][\A r \in 1..Len(runs) :
          (runs[r].pc = "toc" /\ runs'[r].pc # "toc" /\ runs'[r].lastCall.out.ok) =>
            LET g == runs'[r]
            IN /\ CountRequests(g, {"toc2"}) = 1 <=> ~NonEmptyArray(g.lastCall.out.val)
               /\ g.pc = "toc2" => g.reqs[Len(g.reqs)].embeds = g.lastCall.resp.content]_vars
  /\ [](\A r \in 1..Len(runs) : CountRequests(runs[r], {"toc", "toc2"}) <= 2)

\* C18: the chapter body generateBook places in the document is the text of
\* the backend's response to that chapter's expansion request, verbatim.
C18_ChapterBodyVerbatim ==
  [][\A r \in 1..Len(runs) :
       (runs[r].pc = "chapter" /\ runs'[r] # runs[r] /\ runs'[r].pc # "done") =>
         LET h == runs'[r]
         IN h.book[Len(h.book) - 1] = Part("body", h.lastCall.resp.content)]_vars

\* The parts of a document of the outline toc with the sections of its first
\* m chapters: line k of the table of contents is numbered k and carries the
\* title and the pages of chapter k, there are no other such lines, and the
\* sections that follow are headed by the titles of chapters 1..m in order.
DocumentLayout(parts, toc, m) ==
  LET n == Len(toc.a)
  IN /\ Len(parts) = 4 + n + 4 * m
     /\ \A k \in 1..n :
          parts[3 + k] = [p |-> "tocLine", n |-> k,
                          title |-> ToText(GetProp(toc.a[k], "title")),
                          pages |-> ToText(GetProp(toc.a[k], "pages"))]
     /\ Cardinality({k \in 1..Len(parts) : parts[k].p = "tocLine"}) = n
     /\ \A k \in 1..m :
          parts[4 + n + 4 * (k - 1) + 1] = Part("h1", ToText(GetProp(toc.a[k], "title")))
     /\ Cardinality({k \in 1..Len(parts) : parts[k].p = "h1"}) = m

\* C20: for an outline of n chapters the document under construction has n
\* table-of-contents lines, line i numbered i with title i and pages i, and
\* one section for each chapter expanded so far, in outline order; the
\* document handed to redis.set and stored has all n sections.
C20_TocAndSectionsInOrder ==
  /\ \A r \in 1..Len(runs) :
       (runs[r].planned /\ runs[r].pc # "done") =>
         /\ DocumentLayout(runs[r].book, runs[r].toc, runs[r].i)
         /\ runs[r].pc = "set" => runs[r].i = Len(runs[r].toc.a)
  /\ hist.lastWrite # NoWrite =>
       /\ store.t = "md"
       /\ DocumentLayout(store.parts, hist.lastWrite.toc, Len(hist.lastWrite.toc.a))

\* The document of a two-chapter outline has been stored.
C20_Witness ==
  /\ hist.lastWrite # NoWrite
  /\ Len(hist.lastWrite.toc.a) = 2
  /\ runs[1].pc = "done"
  /\ runs[1].res.ok
  /\ Len(store.parts) = 14

\* C24: every started generation run eventually ends, in success or in
\* failure, also when the backend never answers a request.
C24_RunTerminates ==
  <>(\A r \in 1..Len(runs) : runs[r].pc = "done")

(***************************************************************************)
(* Claims about one generation run of the blueprint variant                *)
(* (SpecBlueprint).                                                        *)
(***************************************************************************)
\* The response is a successful one that carries completion text.
CarriesText(resp) == resp.net = "ok" /\ resp.status = 200 /\ resp.body = "text"

\* C12: a first outline response that is malformed JSON leads to the
\* corrective request, and a corrective response that is a valid JSON array
\* makes the outline step succeed with exactly that array as the outline.
C12_SecondResponseUsed ==
  [][\A r \in 1..Len(runs) :
       LET g == runs[r]
           h == runs'[r]
           resp == h.lastCall.resp
           parsed == JSONParse(resp.content)
       IN /\ (g.pc = "toc" /\ h.pc # "toc" /\ CarriesText(resp) /\ ~parsed.ok)
               => h.pc = "toc2"
          /\ (g.pc = "toc2" /\ h.pc # "toc2" /\ CarriesText(resp)
                /\ parsed.ok /\ ArrayIsArray(parsed.val))
               => h.planned /\ h.toc = parsed.val]_vars

ChapterKinds == {"desc", "blueprint", "chapter"}

\* The number of chapter sections attached to the document so far.
SectionsAttached(g) == Cardinality({k \in 1..Len(g.book) : g.book[k].p = "h1"})

\* C13: in a run, chapter requests come after the outline has been obtained
\* and in outline order; a request of chapter i+1 is sent only when the
\* expansion responses of chapters 1..i have been received and attached; and
\* receiving one response sends at most one new request, so at most one
\* request is outstanding.
C13_SequentialChapters ==
  /\ [](\A r \in 1..Len(runs) :
          LET g == runs[r]
          IN g.pc # "done" =>
               /\ g.i = SectionsAttached(g)
               /\ \A k \in 1..Len(g.reqs) :
                    IF g.reqs[k].kind \in ChapterKinds
                    THEN /\ g.planned
                         /\ g.reqs[k].ch <= g.i + 1
                         /\ k < Len(g.reqs) =>
                              /\ g.reqs[k + 1].kind \in ChapterKinds
                              /\ g.reqs[k].ch <= g.reqs[k + 1].ch
                    ELSE k <= 2)
  /\ [][\A r \in 1..Len(runs) : Len(runs'[r].reqs) <= Len(runs[r].reqs) + 1]_vars

\* The description request of chapter 2 is outstanding, after the expansion
\* response of chapter 1 was received.
C13_Witness ==
  /\ runs[1].pc = "desc"
  /\ runs[1].i = 1
  /\ runs[1].reqs[Len(runs[1].reqs)].ch = 2
  /\ CountRequests(runs[1], {"blueprint"}) = 1

\* C17: the extraction never fails: whenever the backend answered a call
\* with a successful response that carries text, JSON or not, askDeepSeek
\* returned a value and raised no error to the pipeline.
C17_ExtractionNeverFails ==
  \A r \in 1..Len(runs) :
    LET c == runs[r].lastCall
    IN (c.n > 0 /\ CarriesText(c.resp)) => c.out.ok

\* C19: the chapter step fails only when a backend call fails: after the
\* outline was obtained, a call the backend answered with a successful
\* response that carries text, valid JSON or not, does not fail the run.
C19_ChapterFailsOnlyOnBackendFailure ==
  \A r \in 1..Len(runs) :
    (runs[r].planned /\ runs[r].callFailed) => ~CarriesText(runs[r].lastCall.resp)

\* The number of description requests run g has sent for chapter c.
DescriptionRequests(g, c) ==
  Cardinality({k \in 1..Len(g.reqs) : g.reqs[k].kind = "desc" /\ g.reqs[k].ch = c})

HasDescription(ch) == ~Falsy(GetProp(ch, "description"))

\* C22: a description request is sent for a chapter only if its descriptor
\* has no description, and then once; when the expansion request of a
\* chapter is sent, its description request has been sent before or its
\* descriptor has a description; and a descriptor changes only by the
\* backfill of its missing description.
C22_DescriptionOnlyWhenMissing ==
  [][\A r \in 1..Len(runs) :
       LET g == runs[r]
           h == runs'[r]
           sent == Len(h.reqs) > Len(g.reqs)
           new == h.reqs[Len(h.reqs)]
       IN (h # g /\ h.pc # "done" /\ h.planned) =>
            /\ (sent /\ new.kind = "desc") =>
                 /\ ~HasDescription(h.toc.a[new.ch])
                 /\ DescriptionRequests(h, new.ch) = 1
            /\ (sent /\ new.kind = "chapter") =>
                 \/ DescriptionRequests(h, new.ch) = 1
                 \/ DescriptionRequests(h, new.ch) = 0 /\ HasDescription(h.toc.a[new.ch])
            /\ g.planned =>
                 \A k \in 1..Len(h.toc.a) :
                   h.toc.a[k] # g.toc.a[k] =>
                     /\ g.pc = "desc"
                     /\ k = g.i + 1
                     /\ ~HasDescription(g.toc.a[k])
                     /\ h.toc.a[k] = SetProp(g.toc.a[k], "description", h.lastCall.out.val)]_vars

\* The value is an object that holds a sections sequence.
IsBlueprint(v) == v.t = "obj" /\ GetProp(v, "sections").t = "arr"

\* C23: when the answer to a blueprint request does not yield an object
\* that holds a sections sequence, the run fails: the handler answers 500
\* and the chapter's expansion request is not sent.
C23_BlueprintValidated ==
  [][\A r \in 1..Len(runs) :
       LET g == runs[r]
           h == runs'[r]
           out == h.lastCall.out
       IN (g.pc = "blueprint" /\ h # g /\ ~(out.ok /\ IsBlueprint(out.val))) =>
            /\ h.pc = "done"
            /\ h.res.status = 500]_vars

(***************************************************************************)
(* Claims about the structured extraction (SpecExtract).                   *)
(***************************************************************************)
RECURSIVE Flatten(_)
\* The texts of q, one after the other.
Flatten(q) == IF q = <<>> THEN <<>> ELSE Head(q) \o Flatten(Tail(q))

\* The sequences of two or more JSON objects.
ObjectSequences ==
  UNION {[1..k -> {ObjectText, ObjectTextB}] : k \in 2..MaxPieces}

\* C15: on a text that consists of two or more valid JSON objects with no
\* separator between them, the extraction returns the array of all those
\* objects in their order.
C15_ConcatenatedObjects ==
  \A objs \in ObjectSequences :
    (call.plainDone /\ call.text = Flatten(objs)) =>
      call.plain = Returned(Arr([k \in 1..Len(objs) |-> JSONParse(objs[k]).val]))

\* C16: the extraction of a text wrapped in a fenced code block, with or
\* without the json tag, gives what the extraction of the text itself gives.
C16_FenceTransparent ==
  (call.plainDone /\ call.fencedDone) => call.fenced = call.plain

\* The completion text as the strategies see it: trimmed, and without the
\* fenced code block around it when there is one.
FenceStripped(t) ==
  LET m == CodeBlockMatch(Trim(t))
  IN IF m.found THEN Trim(m.text) ELSE Trim(t)

\* The bracketed and braced spans of a text: from an opening character to a
\* later closing character of its kind.
Spans(raw) ==
  {sp \in (1..Len(raw)) \X (1..Len(raw)) :
     /\ sp[1] < sp[2]
     /\ \/ raw[sp[1]] = "[" /\ raw[sp[2]] = "]"
        \/ raw[sp[1]] = "{" /\ raw[sp[2]] = "}"}

\* The first span, and of the spans that start there the shortest.
FirstShortestSpan(raw) ==
  LET sp == CHOOSE a \in Spans(raw) :
              \A b \in Spans(raw) : a[1] < b[1] \/ (a[1] = b[1] /\ a[2] <= b[2])
  IN SubSeq(raw, sp[1], sp[2])

\* What the three strategies, tried in their order, give on a text.
FirstSuccess(raw) ==
  IF JSONParse(raw).ok THEN JSONParse(raw).val
  ELSE IF Spans(raw) # {} /\ JSONParse(FirstShortestSpan(raw)).ok
       THEN JSONParse(FirstShortestSpan(raw)).val
       ELSE Str(raw)

\* C27: the extraction gives the parse of the fence-stripped text when that
\* parses, otherwise the parse of its first shortest bracketed or braced
\* span when that parses, otherwise the fence-stripped text itself.
C27_StrategiesInOrder ==
  /\ call.plainDone =>
       call.plain = Returned(FirstSuccess(FenceStripped(call.text)))
  /\ call.fencedDone =>
       call.fenced = Returned(FirstSuccess(FenceStripped(Wrap(call.text, call.tag))))

\* The second strategy decided: prose around two arrays, the first of which
\* was returned.
C27_Witness ==
  /\ call.plainDone
  /\ call.text = ArrayText \o ArrayText
  /\ ~JSONParse(FenceStripped(call.text)).ok
  /\ call.plain = Returned(Arr(<<Num(1)>>))

(***************************************************************************)
(* Claims about the token budget (SpecBudget).                             *)
(***************************************************************************)
\* C21: the token budget sent for a chapter's expansion request lies in
\* [1, 8000] for every positive page count, and the budget of a chapter of
\* p pages is at most the budget of a chapter of q >= p pages.
C21_BudgetClampedMonotone ==
  /\ \A k \in 1..Len(call.sent) : call.sent[k].t = "num" /\ call.sent[k].n \in 1..8000
  /\ Len(call.sent) = 2 => call.sent[1].n <= call.sent[2].n

(***************************************************************************)
(* Claims about process start (SpecStartup).                               *)
(***************************************************************************)
\* C26: a process started without the backend credential or without the
\* store connection string never listens and never starts a run, so it
\* sends no backend request.
C26_FailsBeforeListening ==
  (Falsy(call.env.DEEPSEEK_API_KEY) \/ Falsy(call.env.REDIS_URL)) =>
    /\ call.pc # "listening"
    /\ runs = <<>>

(***************************************************************************)
(* Claims about the log stream (SpecLogs).                                 *)
(***************************************************************************)
\* C28: every log line is written once to each client whose connection is
\* open when the line is logged, and to no other client.
C28_LogReachesOpenClients ==
  call.last.logged =>
    /\ {call.last.to[k] : k \in 1..Len(call.last.to)} = call.last.open
    /\ Len(call.last.to) = Cardinality(call.last.open)

(***************************************************************************)
(* Claims about the service with overlapping requests (Spec).              *)
(***************************************************************************)
\* The document of an outline: the title, the banner, the table of contents
\* with line k for chapter k, the rule, and for chapter k in order its
\* heading, description, text and rule.
IsCompleteDocument(parts, keywords, toc) ==
  LET n == Len(toc.a)
      Title(k) == ToText(GetProp(toc.a[k], "title"))
  IN /\ Len(parts) = 4 + n + 4 * n
     /\ parts[1] = [p |-> "title", text |-> keywords]
     /\ parts[2].p = "banner"
     /\ parts[3].p = "tocHeading"
     /\ \A k \in 1..n :
          /\ parts[3 + k].p = "tocLine"
          /\ parts[3 + k].n = k
          /\ parts[3 + k].title = Title(k)
     /\ parts[4 + n].p = "rule"
     /\ \A k \in 1..n :
          LET base == 4 + n + 4 * (k - 1)
          IN /\ parts[base + 1] = [p |-> "h1", text |-> Title(k)]
             /\ parts[base + 2].p = "quote"
             /\ parts[base + 3].p = "body"
             /\ parts[base + 4].p = "rule"

\* C2: the value under the key is the value present before any run, or the
\* complete document of the run whose redis.set took effect last.
C2_StoreHoldsCompleteDocument ==
  IF hist.lastWrite = NoWrite THEN store = hist.initial
  ELSE /\ hist.lastWrite.run \in 1..Len(runs)
       /\ runs[hist.lastWrite.run].wrote
       /\ store.t = "md"
       /\ IsCompleteDocument(store.parts, hist.lastWrite.keywords, hist.lastWrite.toc)
       /\ hist.lastWrite.keywords = ServiceQuery(hist.lastWrite.run).keywords.s
       /\ Len(hist.lastWrite.toc.a) = 2

\* Two runs overlapped: the second request's run wrote first, the first
\* request's run wrote last, and its document is under the key.
C2_Witness ==
  /\ Len(runs) = 2
  /\ runs[1].wrote
  /\ runs[2].wrote
  /\ hist.lastWrite.run = 1
  /\ store.t = "md"
  /\ store.parts[1].text = <<"Topic", "1">>

\* C3: starting from an empty store, a /download answered while no run has
\* succeeded yet gets 404, and one answered after a run has succeeded gets
\* status 200 with a markdown document.
C3_NotFoundUntilSuccess ==
  hist.initial = Null =>
    \A d \in 1..Len(downloads) :
      downloads[d].pc = "done" =>
        IF downloads[d].afterSuccess
        THEN /\ downloads[d].res.status = 200
             /\ downloads[d].res.body.t = "md"
             /\ downloads[d].res.body.parts # <<>>
        ELSE downloads[d].res.status = 404

\* The download was issued while a run's set was in flight and answered
\* after that run succeeded.
C3_Witness ==
  /\ hist.initial = Null
  /\ downloads[1].pc = "done"
  /\ downloads[1].afterSuccess
  /\ downloads[1].res.status = 200

\* C25: a request whose store command failed has got one error response of
\* the server-failure class (5xx) and the command is not issued again: a
\* /generate whose set failed, a /download whose get failed.
C25_StoreFailureAnswered ==
  /\ \A r \in 1..Len(runs) :
       (runs[r].pc = "done" /\ runs[r].thrown = RedisSetError) =>
         /\ runs[r].res.status \in 500..599
         /\ ~\E k \in 1..Len(redisQ) : redisQ[k].op = "set" /\ redisQ[k].who = r
  /\ \A d \in 1..Len(downloads) :
       downloads[d].pc = "rejected" =>
         /\ downloads[d].res.status \in 500..599
         /\ ~\E k \in 1..Len(redisQ) : redisQ[k].op = "get" /\ redisQ[k].who = d

\* C14: at no time are two generateBook runs in flight.
C14_RunsNeverConcurrent ==
  Cardinality({r \in 1..Len(runs) : runs[r].pc # "done"}) <= 1

(***************************************************************************)
(* The retrying completion client: askDeepSeek of src/index.js 186-225.    *)
(***************************************************************************)
\* The body of the try block: one attempt.
RetryTryBody(resp) ==
  LET posted == AxiosPost(resp)
      raw0 == ContentOrEmpty(resp)
      m == CodeBlockMatch(raw0.val.s)
      raw == IF m.found THEN m.text ELSE raw0.val.s
      parsed == JSONParse(raw)
  IN IF ~posted.ok THEN posted
     ELSE IF ~raw0.ok THEN raw0
     ELSE IF parsed.ok THEN Returned(parsed.val)
     ELSE Thrown("SyntaxError", "Unexpected token in JSON")

\* Mutant of IsLastAttempt: attempt === maxRetries - 1.
IsLastAttemptOffByOne(attempt, maxRetries) == attempt = maxRetries - 1

\* attempt === maxRetries
IsLastAttempt(attempt, maxRetries) == attempt = maxRetries

RECURSIVE Pow2(_)
Pow2(n) == IF n <= 0 THEN 1 ELSE 2 * Pow2(n - 1)

BaseDelayMs == 1000

\* Mutant of BackoffDelay: 1000 * attempt, a linear backoff.
BackoffDelayLinear(attempt) == 1000 * attempt

\* 1000 * 2 ** (attempt - 1)
BackoffDelay(attempt) == BaseDelayMs * Pow2(attempt - 1)

\* new Error(`DeepSeek did not return valid JSON after ${maxRetries} tries`)
RetryExhaustedError(maxRetries, err) ==
  [name |-> "Error", msg |-> "DeepSeek did not return valid JSON after n tries",
   n |-> maxRetries]

\* error.cause of a JavaScript error (undefined unless it was given one).
ErrorCause(e) == IF "cause" \in DOMAIN e THEN e.cause ELSE Undefined

MaxRetriesBound == 4

\* askDeepSeek(systemPrompt, userPrompt, maxTokens, maxRetries) is called:
\* the loop starts with attempt = 1.
InitRetry ==
  /\ call \in {[IdleCall EXCEPT !.maxRetries = n, !.attempt = 1, !.pc = "post"] :
                 n \in 1..MaxRetriesBound}
  /\ attempts = <<>>
  /\ slept = <<>>
  /\ runs = <<>>
  /\ store = Null
  /\ redisQ = <<>>
  /\ downloads = <<>>
  /\ hist = [initial |-> Null, lastWrite |-> NoWrite]

\* One iteration of the loop up to its await of the timer: the request, the
\* parse, and the catch block.
RetryAttempt ==
  /\ call.pc = "post"
  /\ \E resp \in RetryResponses :
       LET out == RetryTryBody(resp)
       IN /\ attempts' = Append(attempts, [ok |-> out.ok, val |-> out.val, err |-> out.err])
          /\ call' =
               IF out.ok THEN [call EXCEPT !.pc = "returned", !.result = out.val]
               ELSE IF IsLastAttempt(call.attempt, call.maxRetries)
                 THEN [call EXCEPT !.pc = "thrown",
                                   !.error = RetryExhaustedError(call.maxRetries, out.err)]
               ELSE [call EXCEPT !.pc = "sleep", !.delay = BackoffDelay(call.attempt)]
  /\ UNCHANGED <<slept, runs, store, redisQ, downloads, hist>>

\* The timer fires: attempt++ and the loop condition attempt <= maxRetries;
\* falling out of the loop returns undefined.
RetryWake ==
  /\ call.pc = "sleep"
  /\ slept' = Append(slept, call.delay)
  /\ call' = IF call.attempt + 1 <= call.maxRetries
             THEN [call EXCEPT !.attempt = call.attempt + 1, !.pc = "post"]
             ELSE [call EXCEPT !.attempt = call.attempt + 1, !.pc = "returned",
                               !.result = Undefined]
  /\ UNCHANGED <<attempts, runs, store, redisQ, downloads, hist>>

NextRetry == RetryAttempt \/ RetryWake

SpecRetry == InitRetry /\ [][NextRetry]_vars

(***************************************************************************)
(* generateBook of src/index.js 228-260 behind the retrying askDeepSeek of *)
(* lines 186-225: no array check and no corrective request, a description  *)
(* request for every chapter.  call is the askDeepSeek call in flight;     *)
(* attempts and slept are the history of that call.  From its second       *)
(* statement on, the generateBook of lines 496-528 has the same text.      *)
(***************************************************************************)
DefaultMaxRetries == 3

\* Lines 247-248 and 252-253.
PlainDescRequest(i, ch) ==
  [kind |-> "desc", ch |-> i + 1, maxTokens |-> Num(200),
   embeds |-> ToText(GetProp(ch, "title"))]
PlainChapterRequest(i, ch, description) ==
  [kind |-> "chapter", ch |-> i + 1, maxTokens |-> Times(GetProp(ch, "pages"), 80),
   embeds |-> ToText(description)]

\* Line 255: the chapter's heading, its text and the rule.
PlainChapterSection(ch, chapterText) ==
  <<Part("h1", ToText(GetProp(ch, "title"))),
    Part("body", ToText(chapterText)),
    Part("rule", <<>>)>>

\* The top of the chapter loop (line 243) up to the description request.
PlainLoopTop(g) ==
  IF LoopDone(g.i, g.toc) THEN [g EXCEPT !.pc = "set"]
  ELSE IF SomeThrows(<<GetProp(g.toc.a[g.i + 1], "title")>>)
    THEN [g EXCEPT !.pc = "throw", !.thrown = PrimitiveError]
  ELSE [g EXCEPT !.pc = "desc",
                 !.reqs = Append(@, PlainDescRequest(g.i, g.toc.a[g.i + 1]))]

\* Lines 238-243 with the outline toc: toc.forEach on whatever was parsed,
\* ch.title on every element, then the loop entry.
PlainAfterToc(g, toc) ==
  IF Nullish(toc)
    THEN [g EXCEPT !.pc = "throw",
                   !.thrown = [name |-> "TypeError",
                               msg |-> "Cannot read properties of null (reading 'forEach')"]]
  ELSE IF ~ArrayIsArray(toc)
    THEN [g EXCEPT !.pc = "throw",
                   !.thrown = [name |-> "TypeError", msg |-> "toc.forEach is not a function"]]
  ELSE IF FirstBadChapter(toc) # 0
    THEN [g EXCEPT !.pc = "throw",
                   !.thrown = SkeletonError(toc, FirstBadChapter(toc),
                                            "Cannot read properties of null (reading 'title')")]
  ELSE PlainLoopTop([g EXCEPT !.toc = toc, !.planned = TRUE, !.i = 0,
                              !.book = Skeleton(g.keywords, toc)])

\* Lines 248-253, resumed with the description: the chapter is asked for.
PlainOnDesc(g, description) ==
  IF SomeThrows(<<GetProp(g.toc.a[g.i + 1], "title"), GetProp(g.toc.a[g.i + 1], "pages"),
                  description>>)
    THEN [g EXCEPT !.pc = "throw", !.thrown = PrimitiveError]
  ELSE [g EXCEPT !.pc = "chapter",
                 !.reqs = Append(@, PlainChapterRequest(g.i, g.toc.a[g.i + 1], description))]

\* Lines 253-256, resumed with the chapter text: the section is attached,
\* i++, and the loop goes on.
PlainOnChapter(g, chapterText) ==
  IF SomeThrows(<<GetProp(g.toc.a[g.i + 1], "title"), chapterText>>)
    THEN [g EXCEPT !.pc = "throw", !.thrown = PrimitiveError]
  ELSE PlainLoopTop([g EXCEPT !.book = @ \o PlainChapterSection(g.toc.a[g.i + 1], chapterText),
                         !.i = g.i + 1])

\* generateBook goes on with the value its askDeepSeek call returned.
RtResume(g, val) ==
  CASE g.pc = "toc" -> PlainAfterToc(g, val)
    [] g.pc = "desc" -> PlainOnDesc(g, val)
    [] g.pc = "chapter" -> PlainOnChapter(g, val)

\* askDeepSeek(prompt, null, maxTokens): maxRetries takes its default and
\* the loop starts with attempt = 1 (lines 186-190).
FirstAttempt ==
  [IdleCall EXCEPT !.maxRetries = DefaultMaxRetries, !.attempt = 1, !.pc = "post"]

\* What the backend may answer to an attempt of the outline call, and of a
\* description or chapter call.
RtOutlineResponses ==
  {NetError, Http(200, "text", ProseText), Http(200, "text", ObjectText),
   Http(200, "text", OutlineTwoText), Http(200, "text", OutlineToStringText)}
RtValueResponses ==
  {NetError, Http(200, "text", ProseText), Http(200, "text", JsonStringText),
   Http(200, "text", ToStringObjectText)}

InitRetryRun ==
  /\ runs \in {<<NewRun(q)>> : q \in GenerateQueries}
  /\ call = FirstAttempt
  /\ attempts = <<>>
  /\ slept = <<>>
  /\ downloads = <<>>
  /\ store \in {Null, OldBook}
  /\ redisQ = <<>>
  /\ hist = [initial |-> store, lastWrite |-> NoWrite]

\* The backend answers the attempt in flight of run r's askDeepSeek call.
\* A value is returned to generateBook, which goes on to its next await; a
\* failed last attempt throws and the handler answers; any other failed
\* attempt sets the timer of line 222.
RtAttempt(r) ==
  /\ runs[r].pc \in {"toc", "desc", "chapter"}
  /\ call.pc = "post"
  /\ \E resp \in (IF runs[r].pc = "toc" THEN RtOutlineResponses ELSE RtValueResponses) :
       LET out == RetryTryBody(resp)
           last == IsLastAttempt(call.attempt, call.maxRetries)
           g == [runs[r] EXCEPT
                   !.lastCall = [resp |-> resp, out |-> out, n |-> call.attempt],
                   !.callFailed = @ \/ (~out.ok /\ last)]
           next == IF out.ok THEN RtResume(g, out.val)
                   ELSE [g EXCEPT !.pc = "throw",
                                  !.thrown = RetryExhaustedError(call.maxRetries, out.err)]
       IN IF out.ok \/ last
          THEN /\ Resume(r, next)
               /\ call' = IF next.pc \in {"desc", "chapter"} THEN FirstAttempt ELSE IdleCall
               /\ attempts' = <<>>
               /\ slept' = <<>>
          ELSE /\ runs' = [runs EXCEPT ![r] = g]
               /\ call' = [call EXCEPT !.pc = "sleep", !.delay = BackoffDelay(call.attempt)]
               /\ attempts' = Append(attempts, [ok |-> out.ok, val |-> out.val, err |-> out.err])
               /\ UNCHANGED <<slept, store, redisQ, hist>>
  /\ UNCHANGED downloads

\* The timer fires: attempt++ and the same request is posted again.  (The
\* loop condition holds here: the last attempt throws and sets no timer.)
RtWake(r) ==
  /\ runs[r].pc \in {"toc", "desc", "chapter"}
  /\ call.pc = "sleep"
  /\ call.attempt + 1 <= call.maxRetries
  /\ slept' = Append(slept, call.delay)
  /\ call' = [call EXCEPT !.attempt = call.attempt + 1, !.pc = "post"]
  /\ runs' = [runs EXCEPT ![r].reqs = Append(@, @[Len(@)])]
  /\ UNCHANGED <<attempts, store, redisQ, downloads, hist>>

NextRetryRun ==
  \/ RtAttempt(1)
  \/ RtWake(1)
  \/ SetReply

SpecRetryRun == InitRetryRun /\ [][NextRetryRun]_vars

(***************************************************************************)
(* generateBook of src/index.js 496-528 behind the askDeepSeek of lines    *)
(* 483-493, which returns the trimmed completion text, or undefined.       *)
(***************************************************************************)
\* return data.choices[0]?.message?.content?.trim()
AskDeepSeekRaw(resp) ==
  LET posted == AxiosPost(resp)
  IN IF ~posted.ok THEN posted
     ELSE IF resp.body = "nochoices"
       THEN Thrown("TypeError", "Cannot read properties of undefined (reading '0')")
     ELSE IF resp.body = "text" THEN Returned(Str(Trim(resp.content)))
     ELSE Returned(Undefined)

\* Lines 503-504, resumed with the outcome of askDeepSeek: JSON.parse of
\* the text (of 'undefined' when there is none).
RawOnToc(g, out) ==
  LET parsed == JSONParse(ToText(out.val))
  IN IF ~out.ok THEN [g EXCEPT !.pc = "throw", !.thrown = out.err]
     ELSE IF ~parsed.ok
       THEN [g EXCEPT !.pc = "throw",
                      !.thrown = [name |-> "SyntaxError", msg |-> "Unexpected token in JSON"]]
     ELSE PlainAfterToc(g, parsed.val)

\* Lines 516-521 and 521-524.
RawOnDesc(g, out) ==
  IF ~out.ok THEN [g EXCEPT !.pc = "throw", !.thrown = out.err]
  ELSE PlainOnDesc(g, out.val)
RawOnChapter(g, out) ==
  IF ~out.ok THEN [g EXCEPT !.pc = "throw", !.thrown = out.err]
  ELSE PlainOnChapter(g, out.val)

RawOutlineResponses ==
  {NetError, Http(200, "nullcontent", <<>>), Http(200, "text", ProseText),
   Http(200, "text", ObjectText), Http(200, "text", OutlineTwoText),
   Http(200, "text", OutlineToStringText)}
RawProseResponses ==
  {NetError, Http(200, "nocontent", <<>>), Http(200, "text", ProseText)}

\* The backend answers the outline request of run r (line 503).
RawTocReply(r) ==
  /\ runs[r].pc = "toc"
  /\ \E resp \in RawOutlineResponses :
       LET out == AskDeepSeekRaw(resp)
       IN Resume(r, RawOnToc(Called(runs[r], resp, out), out))
  /\ UNCHANGED <<downloads, call, attempts, slept>>

\* The backend answers the description request of run r (line 516).
RawDescReply(r) ==
  /\ runs[r].pc = "desc"
  /\ \E resp \in RawProseResponses :
       LET out == AskDeepSeekRaw(resp)
       IN Resume(r, RawOnDesc(Called(runs[r], resp, out), out))
  /\ UNCHANGED <<downloads, call, attempts, slept>>

\* The backend answers the chapter request of run r (line 521).
RawChapterReply(r) ==
  /\ runs[r].pc = "chapter"
  /\ \E resp \in RawProseResponses :
       LET out == AskDeepSeekRaw(resp)
       IN Resume(r, RawOnChapter(Called(runs[r], resp, out), out))
  /\ UNCHANGED <<downloads, call, attempts, slept>>

NextRaw ==
  \/ RawTocReply(1)
  \/ RawDescReply(1)
  \/ RawChapterReply(1)
  \/ SetReply

SpecRaw == InitRun /\ [][NextRaw]_vars

(***************************************************************************)
(* The service of src/index.js 292-460.  Its askDeepSeek (lines 318-359)   *)
(* names max_tokens, which is declared nowhere, in the body of the request *)
(* it builds (line 328): every call throws before anything is posted, so   *)
(* generateBook (lines 384-430) ends at its first statement.               *)
(***************************************************************************)
AskDeepSeekJsonMode == Thrown("ReferenceError", "max_tokens is not defined")

\* GET /generate arrives (lines 435-446): generateBook rejects at line 391
\* and the handler answers 500 in the same turn; no request was sent.
JsGenerate ==
  /\ Up
  /\ Len(runs) < MaxGenerates
  /\ \E q \in GenerateQueries :
       runs' = Append(runs,
                 Ended([NewRun(q) EXCEPT !.reqs = <<>>, !.callFailed = TRUE,
                                         !.thrown = AskDeepSeekJsonMode.err],
                       GenerateResponse(FALSE, AskDeepSeekJsonMode.err)))
  /\ UNCHANGED <<store, redisQ, downloads, hist, call, attempts, slept>>

NextJsonMode ==
  \/ JsGenerate
  \/ \E d \in 1..Len(downloads) : Download(d)
  \/ GetReply

SpecJsonMode == Init /\ [][NextJsonMode]_vars

(***************************************************************************)
(* Claims about the retrying completion client.                            *)
(***************************************************************************)
AllFailed(log) == \A k \in 1..Len(log) : ~log[k].ok

RECURSIVE SumSeq(_)
SumSeq(q) == IF q = <<>> THEN 0 ELSE Head(q) + SumSeq(Tail(q))

\* C5: one call with maxRetries = N >= 1 makes at most N backend attempts;
\* while all attempts so far failed and fewer than N were made the call goes
\* on to the next attempt; it returns exactly when an attempt succeeded, with
\* that attempt's value and no attempt after it; it throws exactly when N
\* attempts were made and all N failed.
C5_AtMostNAttempts ==
  LET n == Len(attempts)
  IN /\ n <= call.maxRetries
     /\ AllFailed(SubSeq(attempts, 1, n - 1))
     /\ call.pc = "returned" <=> (n >= 1 /\ attempts[n].ok)
     /\ call.pc = "returned" => call.result = attempts[n].val
     /\ call.pc = "thrown" <=> (n = call.maxRetries /\ AllFailed(attempts))
     /\ (AllFailed(attempts) /\ n < call.maxRetries) => call.pc \in {"post", "sleep"}

\* The second of three allowed attempts succeeded after the first failed.
C5_Witness ==
  /\ call.pc = "returned"
  /\ call.maxRetries = 3
  /\ Len(attempts) = 2
  /\ ~attempts[1].ok

\* C6: the delay waited between failed attempt k and attempt k+1 is
\* baseDelay * 2^(k-1) with baseDelay = 1000 ms, so the delays are strictly
\* increasing, and a call that exhausts its N attempts has waited N-1 times,
\* baseDelay * (2^(N-1) - 1) in total.
C6_ExponentialBackoff ==
  /\ \A k \in 1..Len(slept) : slept[k] = 1000 * 2^(k - 1)
  /\ \A k \in 1..(Len(slept) - 1) : slept[k] < slept[k + 1]
  /\ call.pc = "sleep" => call.delay = 1000 * 2^(Len(attempts) - 1)
  /\ call.pc \in {"post", "sleep"} =>
       Len(slept) = Len(attempts) - (IF call.pc = "sleep" THEN 1 ELSE 0)
  /\ call.pc = "thrown" =>
       /\ Len(slept) = call.maxRetries - 1
       /\ SumSeq(slept) = 1000 * (2^(call.maxRetries - 1) - 1)

\* A call of four attempts is exhausted after waiting 1 s, 2 s and 4 s.
C6_Witness ==
  /\ call.pc = "thrown"
  /\ call.maxRetries = 4
  /\ slept = <<1000, 2000, 4000>>

\* C7: the error thrown when all N attempts are exhausted carries the error
\* of attempt N as its cause.
C7_CarriesLastCause ==
  call.pc = "thrown" => ErrorCause(call.error) = attempts[Len(attempts)].err

=============================================================================
